---- MODULE Spec2Model ----
(***************************************************************************)
(* Model of the moneybird-agent invoice pipeline: the LangGraph workflow   *)
(* (src/agent/graph.ts), its nodes (src/agent/nodes/*.ts), the processed-  *)
(* invoice table (src/storage/db.ts) and the scheduler (scheduler/cron.ts).*)
(*                                                                         *)
(* Representation notes                                                    *)
(*  - an optional value (T | undefined) is a sequence of length 0 or 1;    *)
(*  - a JSON number that may be absent or null is a tagged record;         *)
(*  - amounts are integers in cents;                                       *)
(*  - the aggregate confidence is a JS float sum/n with n in 1..4; it is   *)
(*    kept exactly as the integer ConfScale * sum / n (ConfScale = 12).    *)
(***************************************************************************)
EXTENDS Integers, Sequences, FiniteSets, TLC

\* ------------------------------------------------------------------ bounds
NumInvoices == 2
MaxRuns == 2
MaxCreated == 1
MaxTasks == 3

\* ------------------------------------------------------- program constants
CONFIDENCE_AUTO_THRESHOLD == 95
CONFIDENCE_REVIEW_THRESHOLD == 80
AMOUNT_REVIEW_THRESHOLD == 100000
ConfScale == 12

\* ------------------------------------------------------------ JS values
None == <<>>
Some(x) == <<x>>
IsSome(o) == Len(o) > 0
Val(o) == o[1]

JsUndefined == [t |-> "undefined", v |-> 0]
JsNull == [t |-> "null", v |-> 0]
JsNum(n) == [t |-> "number", v |-> n]
\* !x for a value that is undefined, null or a number
JsFalsy(x) == x.t = "undefined" \/ x.t = "null" \/ (x.t = "number" /\ x.v = 0)
\* x ?? d
JsNullish(x) == x.t = "undefined" \/ x.t = "null"

NoError == "undefined"
ErrorIsSet(e) == e # NoError

\* ------------------------------------------------------------ input sets
InvoiceIds == 1..NumInvoices
AllIds == 1..(NumInvoices + MaxCreated)

\* A purchase invoice as the platform stores it.  contact_id, invoice_date,
\* attachment and nameHint record whether the field is present.
MkInvoice(st, c, ex, inc, tx, d, a, h) ==
  [state |-> st, contact_id |-> c, total_price_excl_tax |-> ex,
   total_price_incl_tax |-> inc, tax |-> tx, invoice_date |-> d,
   attachment |-> a, nameHint |-> h]

\* The invoices a platform may hold, in the order the platform lists them
InvoiceTemplates ==
  << MkInvoice("draft", TRUE, 4000, 5000, JsNum(1000), TRUE, TRUE, TRUE),
     MkInvoice("new", FALSE, 0, 0, JsUndefined, FALSE, TRUE, TRUE),
     MkInvoice("draft", TRUE, 99001, 100001, JsNull, TRUE, FALSE, TRUE),
     MkInvoice("draft", FALSE, 0, 0, JsUndefined, FALSE, TRUE, TRUE),
     MkInvoice("new", FALSE, 0, 0, JsNum(0), FALSE, FALSE, FALSE),
     MkInvoice("open", TRUE, 4000, 5000, JsNum(1000), TRUE, TRUE, TRUE) >>

\* Invoice i of the platform that starts at template k
TemplateAt(k, i) == InvoiceTemplates[((k + i - 2) % Len(InvoiceTemplates)) + 1]

Absent == [exists |-> FALSE,
           inv |-> MkInvoice("draft", FALSE, 0, 0, JsUndefined, FALSE, FALSE, FALSE)]

\* Confidences a language-model answer may carry (AIDecision.confidence).
Decision(c, r) == [confidence |-> c, requiresReview |-> r]
LLMDecisions == { Decision(100, FALSE), Decision(80, FALSE), Decision(60, TRUE) }

\* Extraction results of scanInvoicePdf
MkExtraction(conf, nm, ex, inc, tx, d) ==
  [confidence |-> conf, supplier_name |-> nm, amount_excl_tax |-> ex,
   amount_incl_tax |-> inc, tax_amount |-> tx, invoice_date |-> d]

\* Extraction amounts are JSON numbers of euros with up to three decimals,
\* kept here in thousandths of a euro (7260 is 7.26); a credit note carries
\* negative amounts.
Extractions ==
  { MkExtraction(90, TRUE, JsNum(6000), JsNum(7260), JsNum(1260), TRUE),
    MkExtraction(60, TRUE, JsNum(0 - 6004), JsNum(0 - 7260), JsNum(0 - 1256), TRUE),
    MkExtraction(65, FALSE, JsNull, JsNum(1000996), JsNull, FALSE) }

\* What extractWithVisionFromPdf returns when its call or its parsing fails
ZeroExtraction ==
  MkExtraction(0, FALSE, JsUndefined, JsUndefined, JsUndefined, FALSE)

\* ------------------------------------------------------------- variables
VARIABLES
  mb,            \* platform: id -> [exists, inv]
  processed,     \* processed_invoices table: set of invoice ids
  st,            \* Workflow State of the run in flight
  pc,            \* node about to run ("idle" between runs, "END" after one)
  run,           \* number of runs started
  trace,         \* nodes executed so far in this run, in order
  writes,        \* platform writes issued in this run
  processedAtStart, \* processed as it was when this run started
  mbAtStart,     \* platform as it was when this run started
  calls,         \* calls of this run to the model (contact matching), the
                 \* processing_log and processed_invoices tables and the
                 \* notification channels
  memory,        \* supplier_kostenpost_mappings table: its rows in rowid order
  attempts,      \* document strategies scanInvoicePdf attempted in this run,
                 \* in order, each with whether it yielded a document
  requests,      \* requests resolveContact sent to the platform in this run,
                 \* in order, each with whether it succeeded
  notify,        \* sendErrorAlert: channel -> phase of its send, and the phase
                 \* of the promise sendErrorAlert returns
  oracle,        \* single-node specifications: the answers the external
                 \* services will give, drawn at the start
  tasks,         \* scheduler: run slot -> [origin, phase] of that run
  schedulerOn,   \* scheduler: startScheduler has been called
  selected       \* scheduler: run slot -> id of the invoice that run's
                 \* detectNewInvoices selected (0: none so far)

vars == <<mb, processed, st, pc, run, trace, writes, processedAtStart,
          mbAtStart, calls, memory, attempts, requests, notify, oracle, tasks,
          schedulerOn, selected>>
pipelineVars == <<mb, processed, st, pc, run, trace, writes, processedAtStart,
                  mbAtStart, calls, memory, attempts, requests, notify,
                  oracle>>
schedVars == <<tasks, schedulerOn, selected>>

\* The notification channels, and sendErrorAlert before it is called
Channels == {"email", "whatsapp", "telegram"}
NotifyIdle == [channel |-> [c \in Channels |-> "idle"], alert |-> "idle"]

\* A call recorded in calls: kind is "llm.invoke", "logProcessing",
\* "markInvoiceProcessed" or "sendErrorAlert"; error tells whether it reports
\* an error, status is the status written to processed_invoices
Call(kind, id, by, error) ==
  [kind |-> kind, id |-> id, by |-> by, error |-> error, status |-> "undefined"]

\* markInvoiceProcessed(invoiceId, status) as node `by` called it
Marked(id, by, status) ==
  [Call("markInvoiceProcessed", id, by, FALSE) EXCEPT !.status = status]

\* The oracle of the specifications that run the whole pipeline, where the
\* answers of the external calls are chosen step by step: no answer is fixed
NoOracle == [llm |-> None]

\* A run slot of the scheduler that holds no run
FreeTask == [origin |-> "none", phase |-> "free"]

\* createInitialState(): isNewContact false, everything else undefined
createInitialState ==
  [invoice |-> None, extraction |-> None, contact |-> FALSE,
   contactMatchDecision |-> None, isNewContact |-> FALSE,
   validationDecision |-> None, kostenpostDecision |-> None,
   matchDecision |-> None, matchedTransaction |-> FALSE,
   overallConfidence |-> None, action |-> "undefined",
   invoicePdfText |-> "undefined", kostenpostId |-> "",
   error |-> NoError, currentNode |-> "undefined"]

Init ==
  /\ \E k \in 1..Len(InvoiceTemplates) :
       mb = [i \in AllIds |-> IF i \in InvoiceIds
                                THEN [exists |-> TRUE, inv |-> TemplateAt(k, i)]
                                ELSE Absent]
  /\ processed = {}
  /\ st = createInitialState
  /\ pc = "idle"
  /\ run = 0
  /\ trace = <<>>
  /\ writes = {}
  /\ processedAtStart = {}
  /\ mbAtStart = mb
  /\ calls = {}
  /\ notify = NotifyIdle
  /\ requests = <<>>
  /\ memory = <<>>
  /\ attempts = <<>>
  /\ oracle = NoOracle
  /\ tasks = [k \in 1..MaxTasks |-> FreeTask]
  /\ schedulerOn = FALSE
  /\ selected = [k \in 1..MaxTasks |-> 0]

\* ---------------------------------------------------------------- storage
\* db.ts isInvoiceProcessed: SELECT ... WHERE invoice_id = ?
isInvoiceProcessed(invoiceId) == invoiceId \in processed

\* db.ts markInvoiceProcessed: INSERT OR REPLACE INTO processed_invoices
markInvoiceProcessed(table, invoiceId) == table \cup {invoiceId}

\* ------------------------------------------------------------- platform
\* MoneybirdMCPClient.listPurchaseInvoices: the ids the platform lists
listPurchaseInvoices == { i \in AllIds : mb[i].exists }

\* The invoice object the client maps a platform response to
ClientInvoice(i, inv, contactName) ==
  [id |-> i, state |-> inv.state, contact_id |-> inv.contact_id,
   total_price_excl_tax |-> inv.total_price_excl_tax,
   total_price_incl_tax |-> inv.total_price_incl_tax,
   tax |-> inv.tax, invoice_date |-> inv.invoice_date,
   attachment |-> inv.attachment, nameHint |-> inv.nameHint,
   contactName |-> contactName]

\* A request sent to the platform by node `by` on behalf of invoice `id`
\* ("contactCreated" records that the platform acknowledged a createContact)
Write(op, id, by) == [op |-> op, id |-> id, by |-> by]

Abs(n) == IF n < 0 THEN 0 - n ELSE n
\* Math.round(Math.abs(euros) * 100)
\* Variant: Math.round(amount * 100), the sign of the amount is kept
ToCentsSigned(amount) == (amount + 5) \div 10

\* Math.round(Math.abs(amount) * 100), amount in thousandths of a euro
ToCents(amount) == (Abs(amount) + 5) \div 10

Min(S) == CHOOSE x \in S : \A y \in S : x <= y

\* ------------------------------------------------------------ graph edges
\* Variant: a stage of the chain that finds an error set hands over to alert
edgeStopOnError(node) ==
  IF ErrorIsSet(st.error)
       /\ node \in {"resolveContact", "validateInvoice", "classifyKostenpost",
                    "matchTransactions"}
    THEN "alert"
  ELSE CASE node = "scanInvoicePdf" -> "resolveContact"
         [] node = "resolveContact" -> "validateInvoice"
         [] node = "validateInvoice" -> "classifyKostenpost"
         [] node = "classifyKostenpost" -> "matchTransactions"
         [] node = "matchTransactions" -> "confidenceGate"
         [] node = "autoBook" -> "END"
         [] node = "alert" -> "END"

\* Variant: autoBook hands over to alert instead of ending the run
edgeAutoBookToAlert(node) ==
  CASE node = "scanInvoicePdf" -> "resolveContact"
    [] node = "resolveContact" -> "validateInvoice"
    [] node = "validateInvoice" -> "classifyKostenpost"
    [] node = "classifyKostenpost" -> "matchTransactions"
    [] node = "matchTransactions" -> "confidenceGate"
    [] node = "autoBook" -> "alert"
    [] node = "alert" -> "END"

\* workflow.addEdge(from, to): the unconditional edges of the graph
edge(node) ==
  CASE node = "scanInvoicePdf" -> "resolveContact"
    [] node = "resolveContact" -> "validateInvoice"
    [] node = "validateInvoice" -> "classifyKostenpost"
    [] node = "classifyKostenpost" -> "matchTransactions"
    [] node = "matchTransactions" -> "confidenceGate"
    [] node = "autoBook" -> "END"
    [] node = "alert" -> "END"

\* ----------------------------------------------------- detectNewInvoices
unprocessedStates == {"new", "draft"}

\* Variant: the selection without the lookup in the processed-invoices table
unprocessedInvoicesNoLookup ==
  { i \in listPurchaseInvoices : mb[i].inv.state \in unprocessedStates }

unprocessedInvoices ==
  { i \in listPurchaseInvoices :
      mb[i].inv.state \in unprocessedStates /\ ~isInvoiceProcessed(i) }

\* Result of the node: the partial state it returns, applied to s.
\* listOk: the list call (and the table lookups) succeeded;
\* contactOk: getContact returned the invoice's contact.
detectNewInvoices(s, listOk, contactOk) ==
  IF ~listOk
    THEN [s EXCEPT !.currentNode = "detectNewInvoices",
                   !.error = "Failed to list purchase invoices"]
  ELSE IF unprocessedInvoices = {}
    THEN [s EXCEPT !.currentNode = "detectNewInvoices"]
  ELSE LET i == Min(unprocessedInvoices)
           inv == mb[i].inv
       IN [s EXCEPT !.currentNode = "detectNewInvoices",
                    !.invoice = Some(ClientInvoice(i, inv, inv.contact_id /\ contactOk))]

\* Variant: the router without its "no invoice" test
routeAfterDetectInvoicesErrorOnly(s) ==
  IF ErrorIsSet(s.error) THEN "alert" ELSE "checkCompleteness"

routeAfterDetectInvoices(s) ==
  IF ErrorIsSet(s.error) THEN "alert"
  ELSE IF ~IsSome(s.invoice) THEN "alert"
  ELSE "checkCompleteness"

DetectNewInvoices ==
  /\ pc = "detectNewInvoices"
  /\ \E listOk \in BOOLEAN, contactOk \in BOOLEAN :
       LET s2 == detectNewInvoices(st, listOk, contactOk)
       IN /\ st' = s2
          /\ pc' = routeAfterDetectInvoices(s2)
  /\ trace' = Append(trace, "detectNewInvoices")
  /\ UNCHANGED <<mb, processed, run, writes, calls, processedAtStart, mbAtStart,
               memory, attempts, oracle, requests, notify, schedVars>>

\* ----------------------------------------------------- checkCompleteness
\* The list of missing fields the node computes (and logs)
checkCompletenessMissing(invoice) ==
  (IF ~invoice.contact_id /\ ~invoice.contactName THEN {"contact"} ELSE {})
  \cup (IF invoice.total_price_excl_tax = 0 THEN {"amount_excl_tax"} ELSE {})
  \cup (IF invoice.total_price_incl_tax = 0 THEN {"amount_incl_tax"} ELSE {})
  \cup (IF JsFalsy(invoice.tax) /\ ~(invoice.tax.t = "number" /\ invoice.tax.v = 0)
          THEN {"tax"} ELSE {})
  \cup (IF ~invoice.invoice_date THEN {"invoice_date"} ELSE {})

checkCompleteness(s) ==
  IF ~IsSome(s.invoice)
    THEN [s EXCEPT !.error = "No invoice in state",
                   !.currentNode = "checkCompleteness"]
    ELSE [s EXCEPT !.currentNode = "checkCompleteness"]

\* The list of missing fields the router computes
routeAfterCompletenessMissing(invoice) ==
  (IF ~invoice.contact_id /\ ~invoice.contactName THEN {"contact"} ELSE {})
  \cup (IF invoice.total_price_excl_tax = 0 THEN {"amount_excl_tax"} ELSE {})
  \cup (IF invoice.total_price_incl_tax = 0 THEN {"amount_incl_tax"} ELSE {})
  \cup (IF invoice.tax.t = "undefined" /\ ~(invoice.tax.t = "number" /\ invoice.tax.v = 0)
          THEN {"tax"} ELSE {})
  \cup (IF ~invoice.invoice_date THEN {"invoice_date"} ELSE {})

routeAfterCompleteness(s) ==
  IF ErrorIsSet(s.error) THEN "alert"
  ELSE IF ~IsSome(s.invoice) THEN "alert"
  ELSE IF routeAfterCompletenessMissing(Val(s.invoice)) # {} THEN "scanInvoicePdf"
  ELSE "resolveContact"

CheckCompleteness ==
  /\ pc = "checkCompleteness"
  /\ LET s2 == checkCompleteness(st)
     IN /\ st' = s2
        /\ pc' = routeAfterCompleteness(s2)
  /\ trace' = Append(trace, "checkCompleteness")
  /\ UNCHANGED <<mb, processed, run, writes, calls, processedAtStart, mbAtStart,
               memory, attempts, oracle, requests, notify, schedVars>>

\* -------------------------------------------------------- scanInvoicePdf
\* { ...state.invoice, ...invoiceUpdates }
ApplyExtraction(invoice, e) ==
  [invoice EXCEPT
     !.total_price_excl_tax =
        IF JsNullish(e.amount_excl_tax) THEN @ ELSE ToCents(e.amount_excl_tax.v),
     !.total_price_incl_tax =
        IF JsNullish(e.amount_incl_tax) THEN @ ELSE ToCents(e.amount_incl_tax.v),
     !.tax = IF JsNullish(e.tax_amount) THEN @ ELSE JsNum(ToCents(e.tax_amount.v)),
     !.invoice_date = IF e.invoice_date THEN TRUE ELSE @]

\* The six ways to a document, in the order of the code
Strategies ==
  <<"localPath", "attachmentUrl", "receiptById", "listReceipts",
    "constructedUrl", "cachedCopy">>

Attempt(strategy, ok) == [strategy |-> strategy, ok |-> ok]

\* What the outside world answers to the acquisition of the document:
\*   path     state.invoicePdfPath: "none", or the file is "ok" / "unreadable"
\*   attUrl   attachments[0].url is present;  attId  attachments[0].id is
\*   receipt  getReceipt: "url", "nourl" or "fail"
\*   list     listReceipts: "fail", "empty", or one receipt that has a "url",
\*            downloads as a valid "pdf" or does not ("badpdf")
\*   api      the constructed download URL answers with a valid PDF
\*   fetch    the download from pdfUrl succeeds
\*   parse    pdfParse gives the text and the copy is stored
\*   cache    a stored copy of the invoice's PDF can be read
MkDoc(path, attUrl, attId, receipt, list, api, fetch, parse, cache) ==
  [path |-> path, attUrl |-> attUrl, attId |-> attId, receipt |-> receipt,
   list |-> list, api |-> api, fetch |-> fetch, parse |-> parse, cache |-> cache]

\* Step 1 and step 2 of scanInvoicePdf: the strategies attempted in order,
\* whether a PDF buffer results, whether the node throws, and the text
acquireDocument(doc) ==
  LET tryReceipt == ~doc.attUrl /\ doc.attId
      fromReceipt == tryReceipt /\ doc.receipt = "url"
      tryList == ~doc.attUrl /\ ~fromReceipt
      fromList == tryList /\ doc.list = "url"
      mcp == tryList /\ doc.list = "pdf"
      pdfUrl == doc.attUrl \/ fromReceipt \/ fromList
      tryApi == ~mcp /\ ~pdfUrl /\ doc.attId
      viaApi == tryApi /\ doc.api
      viaFetch == pdfUrl /\ doc.fetch
      downloaded == mcp \/ viaApi \/ viaFetch
      If(c, q) == IF c THEN q ELSE <<>>
  IN IF doc.path # "none"
       THEN [attempts |-> <<Attempt("localPath", doc.path = "ok")>>,
             pdfBuffer |-> doc.path = "ok",
             threw |-> doc.path = "unreadable",
             pdfText |-> IF doc.path = "ok" /\ doc.parse THEN "pdf" ELSE "metadata"]
     ELSE [attempts |->
             If(doc.attUrl, <<Attempt("attachmentUrl", doc.fetch)>>)
             \o If(tryReceipt, <<Attempt("receiptById", fromReceipt /\ doc.fetch)>>)
             \o If(tryList, <<Attempt("listReceipts", mcp \/ (fromList /\ doc.fetch))>>)
             \o If(tryApi, <<Attempt("constructedUrl", doc.api)>>)
             \o If(~downloaded, <<Attempt("cachedCopy", doc.cache)>>),
           pdfBuffer |-> downloaded \/ doc.cache,
           threw |-> FALSE,
           pdfText |-> IF (viaApi \/ viaFetch) /\ doc.parse THEN "pdf" ELSE "metadata"]

\* Answers of the extraction model: the call fails, the answer holds no JSON
\* object, or it holds the extraction e
ModelFails == [kind |-> "fail", e |-> ZeroExtraction]
ModelNoJson == [kind |-> "nojson", e |-> ZeroExtraction]
ModelJson(e) == [kind |-> "json", e |-> e]

\* scanInvoicePdf(state).  With a PDF buffer the vision call extracts, and
\* its failure gives ZeroExtraction; without one the text call extracts, and
\* its failure is caught by the node's own catch.
scanInvoicePdf(s, doc, answer) ==
  LET a == acquireDocument(doc)
      e == IF answer.kind = "json" THEN answer.e ELSE ZeroExtraction
  IN IF ~(doc.path # "none" \/ (IsSome(s.invoice) /\ Val(s.invoice).attachment))
       THEN [s EXCEPT !.error = "No PDF path or attachment available",
                      !.currentNode = "scanInvoicePdf"]
     ELSE IF a.threw \/ (~a.pdfBuffer /\ answer.kind # "json")
       THEN [s EXCEPT !.error = "Unknown error in scanInvoicePdf",
                      !.currentNode = "scanInvoicePdf"]
     ELSE [s EXCEPT !.currentNode = "scanInvoicePdf",
                    !.invoicePdfText = a.pdfText,
                    !.extraction = Some(e),
                    !.invoice = IF IsSome(s.invoice)
                                  THEN Some(ApplyExtraction(Val(s.invoice), e))
                                  ELSE None]

\* The strategies the node went through: none when it returns at its guard
scanAttempts(s, doc) ==
  IF ~(doc.path # "none" \/ (IsSome(s.invoice) /\ Val(s.invoice).attachment))
    THEN <<>>
    ELSE acquireDocument(doc).attempts

\* The attachment's URL downloads and parses; nothing can be downloaded
DocDownloaded == MkDoc("none", TRUE, TRUE, "fail", "fail", FALSE, TRUE, TRUE, FALSE)
DocUnavailable == MkDoc("none", FALSE, TRUE, "fail", "fail", FALSE, FALSE, FALSE, FALSE)

\* Outcomes of the scan in a run of the pipeline: the document is downloaded
\* and the vision call extracts e or fails, or nothing is downloaded and the
\* text call fails
PipelineScans ==
  { [doc |-> DocDownloaded, answer |-> ModelJson(e)] : e \in Extractions }
    \cup { [doc |-> DocDownloaded, answer |-> ModelFails],
           [doc |-> DocUnavailable, answer |-> ModelFails] }

ScanInvoicePdf ==
  /\ pc = "scanInvoicePdf"
  /\ \E scan \in PipelineScans :
       /\ st' = scanInvoicePdf(st, scan.doc, scan.answer)
       /\ attempts' = scanAttempts(st, scan.doc)
  /\ pc' = edge("scanInvoicePdf")
  /\ trace' = Append(trace, "scanInvoicePdf")
  /\ UNCHANGED <<mb, processed, run, writes, calls, processedAtStart, mbAtStart,
               memory, oracle, requests, notify, schedVars>>

\* -------------------------------------------------------- resolveContact
\* What the contact search (listContacts + name comparison) can yield
ContactSearch == {"exact", "fuzzy", "nomatch", "empty", "fail"}

MatchDecision(m, c, r) == [matched |-> m, confidence |-> c, requiresReview |-> r]
LLMMatchDecisions ==
  { MatchDecision(TRUE, 95, FALSE), MatchDecision(FALSE, 95, FALSE),
    MatchDecision(TRUE, 60, FALSE) }

\* supplierName: extraction.supplier_name || invoice.contact.company_name,
\* else derived from the attachment filename or the reference
supplierNameAvailable(s) ==
  \/ IsSome(s.extraction) /\ Val(s.extraction).supplier_name
  \/ IsSome(s.invoice) /\ (Val(s.invoice).contactName \/ Val(s.invoice).nameHint)

\* Variant: an equal name is treated like a name that is only contained
contactDecisionSubstringOnly(search, llm) ==
  IF search \in {"exact", "fuzzy"} THEN MatchDecision(TRUE, 75, TRUE)
  ELSE IF IsSome(llm) THEN Val(llm)
  ELSE MatchDecision(FALSE, IF search = "empty" THEN 30 ELSE 50, TRUE)

\* Variant: a failed model call leaves a confident decision without a match
contactDecisionConfidentFallback(search, llm) ==
  IF search = "exact" THEN MatchDecision(TRUE, 95, FALSE)
  ELSE IF search = "fuzzy" THEN MatchDecision(TRUE, 75, TRUE)
  ELSE IF IsSome(llm) THEN Val(llm)
  ELSE MatchDecision(FALSE, 95, FALSE)

\* The decision of the name comparison or, failing that, of the model
\* (llm = None: the model call failed)
contactDecision(search, llm) ==
  IF search = "exact" THEN MatchDecision(TRUE, 95, FALSE)
  ELSE IF search = "fuzzy" THEN MatchDecision(TRUE, 75, TRUE)
  ELSE IF IsSome(llm) THEN Val(llm)
  ELSE MatchDecision(FALSE, IF search = "empty" THEN 30 ELSE 50, TRUE)

\* Variant: any matched contact is reused, whatever the confidence
shouldCreateContactUnmatchedOnly(decision) == ~decision.matched

\* A contact is created exactly in the branch that does not reuse one
shouldCreateContact(decision) ==
  ~(decision.matched /\ decision.confidence >= 80)

InvId(s) == IF IsSome(s.invoice) THEN Val(s.invoice).id ELSE 0

\* Platform side of updatePurchaseInvoice
UpdContact(inv) == [inv EXCEPT !.contact_id = TRUE]
UpdFields(inv, e) == ApplyExtraction(inv, e)
UpdAll(inv, e) == UpdContact(UpdFields(inv, e))
SetInv(m, i, inv) == [m EXCEPT ![i].inv = inv]

FreshIds(m) == { i \in AllIds \ InvoiceIds : ~m[i].exists }

\* Variant: the replacement is created as an open invoice
newInvoiceDataOpen(e) ==
  MkInvoice("open", TRUE,
            IF JsFalsy(e.amount_excl_tax) THEN 0 ELSE ToCents(e.amount_excl_tax.v),
            IF JsFalsy(e.amount_incl_tax) THEN 0 ELSE ToCents(e.amount_incl_tax.v),
            IF JsFalsy(e.tax_amount) THEN JsUndefined ELSE JsNum(ToCents(e.tax_amount.v)),
            e.invoice_date, FALSE, FALSE)

\* CreateInvoiceInput built from the extraction: state is always "draft";
\* an amount that is absent or 0 is left out
newInvoiceData(e) ==
  MkInvoice("draft", TRUE,
            IF JsFalsy(e.amount_excl_tax) THEN 0 ELSE ToCents(e.amount_excl_tax.v),
            IF JsFalsy(e.amount_incl_tax) THEN 0 ELSE ToCents(e.amount_incl_tax.v),
            IF JsFalsy(e.tax_amount) THEN JsUndefined ELSE JsNum(ToCents(e.tax_amount.v)),
            e.invoice_date, FALSE, FALSE)

UpdateResults == {"ok", "e422", "err"}

\* Variant: the return value also carries error: undefined, and it is applied
resolveReturnClearsError(s, invoice, decision, isNewContact, contact) ==
  [s EXCEPT !.currentNode = "resolveContact",
            !.error = NoError,
            !.contact = contact,
            !.invoice = invoice,
            !.contactMatchDecision =
               Some(Decision(decision.confidence,
                             decision.requiresReview \/ isNewContact)),
            !.isNewContact = isNewContact]

\* The node's final return value applied to s
resolveReturn(s, invoice, decision, isNewContact, contact) ==
  [s EXCEPT !.currentNode = "resolveContact",
            !.contact = contact,
            !.invoice = invoice,
            !.contactMatchDecision =
               Some(Decision(decision.confidence,
                             decision.requiresReview \/ isNewContact)),
            !.isNewContact = isNewContact]

Out(s, m, p, w, c) ==
  [s |-> s, mb |-> m, processed |-> p, writes |-> w, calls |-> c]

\* Second half of the node: the invoice update after a contact is known,
\* and the replacement of a "new" invoice the platform refuses to update.
\*  (the platform does not change an invoice's lifecycle state on update)
\*  u1, u2, u3: results of the contact-only, the remaining-fields and the
\*  full (or single) update;  cInv, del, db: create, delete, table write
\*  ("updateRejected" records that the platform refused the last update tried)
resolveUpdate(s, m, p, w, c, decision, isNew, u1, u2, u3, cInv, del, db) ==
  LET inv0 == Val(s.invoice)
      i == inv0.id
      e == Val(s.extraction)
      by == "resolveContact"
      wU == w \cup {Write("update", i, by)}
      isNewState == inv0.state = "new"
      m1 == SetInv(m, i, UpdContact(m[i].inv))
      step1ok == isNewState /\ u1 = "ok"
      step2ok == step1ok /\ u2 = "ok"
      mBase == IF step1ok THEN m1 ELSE m
      fullTried == ~step2ok
      fullOk == fullTried /\ u3 = "ok"
      mOk == IF step2ok THEN SetInv(m1, i, UpdFields(m1[i].inv, e))
             ELSE SetInv(mBase, i, UpdAll(mBase[i].inv, e))
      is422Error == u3 = "e422"
      canCreate == FreshIds(m) # {} /\ cInv
      n == Min(FreshIds(m))
      mNew == [mBase EXCEPT ![n] = [exists |-> TRUE, inv |-> newInvoiceData(e)]]
      wR == wU \cup {Write("updateRejected", i, by)}
      wC == wR \cup {Write("createInvoice", i, by)}
      wD == wC \cup {Write("delete", i, by)}
  IN
  IF step2ok \/ fullOk
    THEN Out(resolveReturn(s, Some(ClientInvoice(i, mOk[i].inv, FALSE)),
                           decision, isNew, TRUE), mOk, p, wU, c)
  ELSE IF is422Error /\ isNewState
    THEN IF ~canCreate
           THEN Out(resolveReturn(s, s.invoice, decision, isNew, TRUE),
                    mBase, p, wC, c)
         ELSE IF del
           THEN Out(resolveReturn(s, Some(ClientInvoice(n, mNew[n].inv, FALSE)),
                                  decision, isNew, TRUE),
                    [mNew EXCEPT ![i].exists = FALSE], p, wD, c)
         ELSE IF db
           THEN Out(resolveReturn(s, Some(ClientInvoice(n, mNew[n].inv, FALSE)),
                                  decision, isNew, TRUE),
                    mNew, markInvoiceProcessed(p, i), wD,
                    c \cup {Marked(i, by, "completed")})
         ELSE Out(resolveReturn(s, s.invoice, decision, isNew, TRUE), mNew, p, wD, c)
  ELSE Out(resolveReturn(s, s.invoice, decision, isNew, TRUE), mBase, p, wR, c)

\* Variant: the flag is never raised
isNewContactNeverSet(create, createOk) == FALSE

\* isNewContact: set to true right after createContact returns
isNewContactAfter(create, createOk) == create /\ createOk

\* The whole node.  search, llm: contact search and model answer;
\* getOk, createOk: getContact / createContact succeeded
resolveContact(s, m, p, w, c, search, llm, getOk, createOk, u1, u2, u3, cInv, del, db) ==
  LET decision == contactDecision(search, llm)
      create == shouldCreateContact(decision)
      isNew == isNewContactAfter(create, createOk)
      contact == IF create THEN createOk ELSE TRUE
      w1 == w \cup (IF create
                      THEN {Write("createContact", InvId(s), "resolveContact")}
                      ELSE {})
             \cup (IF create /\ createOk
                      THEN {Write("contactCreated", InvId(s), "resolveContact")}
                      ELSE {})
      c1 == IF search \in {"nomatch", "empty"}
              THEN c \cup {Call("llm.invoke", InvId(s), "resolveContact",
                                ~IsSome(llm))}
              ELSE c
      failed(msg, cs) ==
        Out([s EXCEPT !.error = msg, !.currentNode = "resolveContact"], m, p, w, cs)
  IN
  IF ~IsSome(s.invoice) /\ ~IsSome(s.extraction)
    THEN failed("No invoice or extraction data available", c)
  ELSE IF ~supplierNameAvailable(s)
    THEN failed("No supplier name available", c)
  ELSE IF search = "fail"
    THEN failed("Failed to list contacts", c)
  ELSE IF ~create /\ ~getOk
    THEN failed("Failed to get contact", c1)
  ELSE IF contact /\ IsSome(s.invoice) /\ IsSome(s.extraction)
          /\ Val(s.extraction).confidence >= 70
    THEN resolveUpdate(s, m, p, w1, c1, decision, isNew, u1, u2, u3, cInv, del, db)
  ELSE Out(resolveReturn(s, s.invoice, decision, isNew, contact), m, p, w1, c1)

\* A request to the platform, or the write to processed_invoices, and whether
\* it succeeded
Req(op, ok) == [op |-> op, ok |-> ok]

\* Variant: an invoice in state "new" is updated like any other, in one request
updateRequestsSingle(isNewState, u1, u2, u3) ==
  <<Req("updateAll", u3 = "ok")>>

\* updatePurchaseInvoice as resolveContact sends it: for an invoice in state
\* "new" the contact alone, then the remaining fields, and all fields at once
\* when either of the two was refused; for any other invoice all at once
updateRequests(isNewState, u1, u2, u3) ==
  IF isNewState
    THEN <<Req("updateContactOnly", u1 = "ok")>>
         \o (IF u1 = "ok" THEN <<Req("updateRemaining", u2 = "ok")>> ELSE <<>>)
         \o (IF u1 = "ok" /\ u2 = "ok" THEN <<>> ELSE <<Req("updateAll", u3 = "ok")>>)
    ELSE <<Req("updateAll", u3 = "ok")>>

\* The requests of the whole node, in the order the node sends them
resolveRequests(s, m, search, llm, getOk, createOk, u1, u2, u3, cInv, del, db) ==
  LET decision == contactDecision(search, llm)
      create == shouldCreateContact(decision)
      contact == IF create THEN createOk ELSE TRUE
      isNewState == Val(s.invoice).state = "new"
      upd == updateRequests(isNewState, u1, u2, u3)
      updated == upd[Len(upd)].ok
      canCreate == FreshIds(m) # {} /\ cInv
  IN
  IF ~IsSome(s.invoice) /\ ~IsSome(s.extraction) THEN <<>>
  ELSE IF ~supplierNameAvailable(s) THEN <<>>
  ELSE IF search = "fail" THEN <<>>
  ELSE IF ~create /\ ~getOk THEN <<>>
  ELSE (IF create THEN <<Req("createContact", createOk)>> ELSE <<>>)
       \o (IF contact /\ IsSome(s.invoice) /\ IsSome(s.extraction)
              /\ Val(s.extraction).confidence >= 70
             THEN upd
                  \o (IF ~updated /\ u3 = "e422" /\ isNewState
                        THEN <<Req("createPurchaseInvoice", canCreate)>>
                             \o (IF canCreate
                                   THEN <<Req("deletePurchaseInvoice", del)>>
                                        \o (IF del THEN <<>>
                                            ELSE <<Req("markInvoiceProcessed", db)>>)
                                   ELSE <<>>)
                        ELSE <<>>)
             ELSE <<>>)

Only(cond, S, d) == IF cond THEN S ELSE {d}

ResolveContact ==
  /\ pc = "resolveContact"
  /\ \E search \in ContactSearch :
     \E llm \in Only(search \in {"nomatch", "empty"},
                     {None} \cup { Some(d) : d \in LLMMatchDecisions }, None) :
     \E getOk \in BOOLEAN, createOk \in BOOLEAN :
     \E u1 \in UpdateResults, u3 \in UpdateResults :
     \E u2 \in Only(u1 = "ok", UpdateResults, "ok") :
     \E cInv \in Only(u3 = "e422", BOOLEAN, FALSE) :
     \E del \in Only(cInv, BOOLEAN, FALSE) :
     \E db \in Only(cInv /\ ~del, BOOLEAN, FALSE) :
       LET o == resolveContact(st, mb, processed, writes, calls, search, llm, getOk,
                               createOk, u1, u2, u3, cInv, del, db)
       IN /\ st' = o.s
          /\ mb' = o.mb
          /\ processed' = o.processed
          /\ writes' = o.writes
          /\ calls' = o.calls
          /\ requests' = resolveRequests(st, mb, search, llm, getOk, createOk,
                                         u1, u2, u3, cInv, del, db)
  /\ pc' = edge("resolveContact")
  /\ trace' = Append(trace, "resolveContact")
  /\ UNCHANGED <<run, processedAtStart, mbAtStart, memory, attempts, oracle,
               notify, schedVars>>

\* ------------------------------------------------------- validateInvoice
\* llm = None: the model call failed or answered without JSON
validateInvoice(s, llm) ==
  IF ~IsSome(s.invoice) /\ ~IsSome(s.extraction)
    THEN [s EXCEPT !.error = "No invoice or extraction data available",
                   !.currentNode = "validateInvoice"]
  ELSE IF ~IsSome(llm)
    THEN [s EXCEPT !.error = "Unknown error in validateInvoice",
                   !.currentNode = "validateInvoice"]
  ELSE
    LET hasInv == IsSome(s.invoice)
        hasEx == IsSome(s.extraction)
        fromEx(x) == IF hasEx /\ ~JsFalsy(x) THEN (x.v + 5) \div 10 ELSE 0
        amountExcl == IF hasInv THEN Val(s.invoice).total_price_excl_tax
                      ELSE fromEx(Val(s.extraction).amount_excl_tax)
        amountIncl == IF hasInv THEN Val(s.invoice).total_price_incl_tax
                      ELSE fromEx(Val(s.extraction).amount_incl_tax)
        taxAmount == IF hasInv /\ ~JsNullish(Val(s.invoice).tax)
                       THEN Val(s.invoice).tax.v
                     ELSE IF hasEx THEN fromEx(Val(s.extraction).tax_amount)
                     ELSE 0
        expectedTax == amountIncl - amountExcl
        discrepancy == Abs(taxAmount - expectedTax)
        isValid == discrepancy < 1
        d == Val(llm)
        finalConfidence == IF isValid THEN d.confidence
                           ELSE IF d.confidence - 20 > 0 THEN d.confidence - 20 ELSE 0
    IN [s EXCEPT !.currentNode = "validateInvoice",
                 !.validationDecision =
                    Some(Decision(finalConfidence,
                                  d.requiresReview \/ ~isValid \/ discrepancy > 100))]

ValidateInvoice ==
  /\ pc = "validateInvoice"
  /\ \E llm \in {None} \cup { Some(d) : d \in LLMDecisions } :
       st' = validateInvoice(st, llm)
  /\ pc' = edge("validateInvoice")
  /\ trace' = Append(trace, "validateInvoice")
  /\ UNCHANGED <<mb, processed, run, writes, calls, processedAtStart, mbAtStart,
               memory, attempts, oracle, requests, notify, schedVars>>

\* ---------------------------------------------------- classifyKostenpost
\* A row of supplier_kostenpost_mappings; confidence in percent
Row(name, kid, confidence, usage) ==
  [supplier_name |-> name, kostenpost_id |-> kid, confidence |-> confidence,
   usage_count |-> usage]

\* SELECT * ... WHERE supplier_name = ? ORDER BY confidence DESC,
\* usage_count DESC LIMIT 1
getKostenpostMapping(table, supplier_name) ==
  LET named == { j \in 1..Len(table) : table[j].supplier_name = supplier_name }
      better(j, k) ==
        \/ table[j].confidence > table[k].confidence
        \/ /\ table[j].confidence = table[k].confidence
           /\ table[j].usage_count > table[k].usage_count
      best == { j \in named : \A k \in named : ~better(k, j) }
  IN IF named = {} THEN None ELSE Some(table[Min(best)])

\* Variant: a row is inserted whether or not the pair has one
recordKostenpostMappingInsertOnly(table, supplier_name, kostenpost_id, confidence) ==
  Append(table, Row(supplier_name, kostenpost_id,
                    IF confidence.t = "number" THEN confidence.v ELSE 100, 1))

\* recordKostenpostMapping(params): the row of the pair is updated, or a row
\* is inserted for it; confidence is a number or undefined
recordKostenpostMapping(table, supplier_name, kostenpost_id, confidence) ==
  LET existing == { j \in 1..Len(table) :
                      /\ table[j].supplier_name = supplier_name
                      /\ table[j].kostenpost_id = kostenpost_id }
  IN IF existing # {}
       THEN [table EXCEPT
               ![Min(existing)] =
                  [@ EXCEPT !.usage_count = @ + 1,
                            !.confidence = IF confidence.t = "number"
                                             THEN confidence.v ELSE @]]
     ELSE Append(table, Row(supplier_name, kostenpost_id,
                            IF confidence.t = "number" THEN confidence.v ELSE 100, 1))

\* The ledger accounts listLedgerAccounts returns
LedgerAccounts == {"k1", "k2"}

\* extraction.supplier_name || contact.company_name ||
\* invoice.contact.company_name; "" when none is known
supplierName(s) ==
  IF \/ IsSome(s.extraction) /\ Val(s.extraction).supplier_name
     \/ s.contact
     \/ IsSome(s.invoice) /\ Val(s.invoice).contactName
    THEN "S" ELSE ""

\* Math.min(100, confidence + 10) when the learned mapping names the
\* account the model chose
finalConfidence(s, d, kostenpost_id, table) ==
  LET learnedMapping == IF supplierName(s) # ""
                          THEN getKostenpostMapping(table, supplierName(s))
                          ELSE None
  IN IF IsSome(learnedMapping) /\ kostenpost_id = Val(learnedMapping).kostenpost_id
       THEN (IF d.confidence + 10 < 100 THEN d.confidence + 10 ELSE 100)
       ELSE d.confidence

\* Variant: the mapping is recorded whatever the confidence
learnKostenpostAlways(s, llm, kostenpost_id, table) ==
  IF (~IsSome(s.invoice) /\ ~IsSome(s.extraction)) \/ ~IsSome(llm)
    THEN table
  ELSE IF /\ kostenpost_id # ""
          /\ supplierName(s) # ""
          /\ kostenpost_id \in LedgerAccounts
    THEN recordKostenpostMapping(table, supplierName(s), kostenpost_id,
                                 JsNum(finalConfidence(s, Val(llm), kostenpost_id, table)))
  ELSE table

\* The table after classifyKostenpost: the mapping is recorded when the model
\* named a listed account, a supplier name is known and finalConfidence >= 80
learnKostenpost(s, llm, kostenpost_id, table) ==
  IF (~IsSome(s.invoice) /\ ~IsSome(s.extraction)) \/ ~IsSome(llm)
    THEN table
  ELSE IF /\ kostenpost_id # ""
          /\ supplierName(s) # ""
          /\ finalConfidence(s, Val(llm), kostenpost_id, table) >= 80
          /\ kostenpost_id \in LedgerAccounts
    THEN recordKostenpostMapping(table, supplierName(s), kostenpost_id,
                                 JsNum(finalConfidence(s, Val(llm), kostenpost_id, table)))
  ELSE table

\* Variant: the node also returns isNewContact: false
classifyKostenpostClearsFlag(s, llm, kostenpost_id, table) ==
  IF ~IsSome(s.invoice) /\ ~IsSome(s.extraction)
    THEN [s EXCEPT !.error = "No invoice or extraction data available",
                   !.currentNode = "classifyKostenpost"]
  ELSE IF ~IsSome(llm)
    THEN [s EXCEPT !.error = "Unknown error in classifyKostenpost",
                   !.currentNode = "classifyKostenpost"]
  ELSE
    [s EXCEPT !.currentNode = "classifyKostenpost",
              !.isNewContact = FALSE,
              !.kostenpostId = kostenpost_id,
              !.kostenpostDecision =
                 Some(Decision(finalConfidence(s, Val(llm), kostenpost_id, table),
                               Val(llm).requiresReview))]

\* llm = None: listLedgerAccounts or the model call failed; kostenpost_id:
\* the account the model names ("" when it names none); table: the memory
classifyKostenpost(s, llm, kostenpost_id, table) ==
  IF ~IsSome(s.invoice) /\ ~IsSome(s.extraction)
    THEN [s EXCEPT !.error = "No invoice or extraction data available",
                   !.currentNode = "classifyKostenpost"]
  ELSE IF ~IsSome(llm)
    THEN [s EXCEPT !.error = "Unknown error in classifyKostenpost",
                   !.currentNode = "classifyKostenpost"]
  ELSE
    [s EXCEPT !.currentNode = "classifyKostenpost",
              !.kostenpostId = kostenpost_id,
              !.kostenpostDecision =
                 Some(Decision(finalConfidence(s, Val(llm), kostenpost_id, table),
                               Val(llm).requiresReview))]

\* Answers of the classification model in a run of the pipeline: a decision
\* naming the listed account k1, a confident one naming an account that is
\* not listed, or none (the call or listLedgerAccounts failed)
PipelineClassifications ==
  { [llm |-> Some(d), kostenpost_id |-> "k1"] : d \in LLMDecisions }
    \cup { [llm |-> Some(Decision(100, FALSE)), kostenpost_id |-> "k9"],
           [llm |-> None, kostenpost_id |-> ""] }

ClassifyKostenpost ==
  /\ pc = "classifyKostenpost"
  /\ \E c \in PipelineClassifications :
       /\ st' = classifyKostenpost(st, c.llm, c.kostenpost_id, memory)
       /\ memory' = learnKostenpost(st, c.llm, c.kostenpost_id, memory)
  /\ pc' = edge("classifyKostenpost")
  /\ trace' = Append(trace, "classifyKostenpost")
  /\ UNCHANGED <<mb, processed, run, writes, calls, processedAtStart, mbAtStart,
               attempts, oracle, requests, notify, schedVars>>

\* ----------------------------------------------------- matchTransactions
\* listOk: listTransactions succeeded; candidates: some transaction lies
\* within 1% of the amount; llm as above; found: the transaction the model
\* names is one of the candidates
matchTransactions(s, listOk, candidates, llm, found) ==
  IF ~IsSome(s.invoice)
    THEN [s EXCEPT !.error = "No invoice available",
                   !.currentNode = "matchTransactions"]
  ELSE IF ~Val(s.invoice).invoice_date
    THEN [s EXCEPT !.error = "Invoice date missing",
                   !.currentNode = "matchTransactions"]
  ELSE IF ~listOk
    THEN [s EXCEPT !.error = "Unknown error in matchTransactions",
                   !.currentNode = "matchTransactions"]
  ELSE IF ~candidates
    THEN [s EXCEPT !.currentNode = "matchTransactions",
                   !.matchDecision = Some(Decision(0, TRUE))]
  ELSE IF ~IsSome(llm)
    THEN [s EXCEPT !.error = "Unknown error in matchTransactions",
                   !.currentNode = "matchTransactions"]
  ELSE [s EXCEPT !.currentNode = "matchTransactions",
                 !.matchedTransaction = found,
                 !.matchDecision =
                    Some(Decision(Val(llm).confidence,
                                  Val(llm).requiresReview \/ ~found))]

MatchTransactions ==
  /\ pc = "matchTransactions"
  /\ \E listOk \in BOOLEAN :
     \E candidates \in Only(listOk, BOOLEAN, FALSE) :
     \E llm \in Only(candidates, {None} \cup { Some(d) : d \in LLMDecisions }, None) :
     \E found \in Only(IsSome(llm), BOOLEAN, FALSE) :
       st' = matchTransactions(st, listOk, candidates, llm, found)
  /\ pc' = edge("matchTransactions")
  /\ trace' = Append(trace, "matchTransactions")
  /\ UNCHANGED <<mb, processed, run, writes, calls, processedAtStart, mbAtStart,
               memory, attempts, oracle, requests, notify, schedVars>>

\* -------------------------------------------------------- confidenceGate
RECURSIVE SumSeq(_)
SumSeq(q) == IF q = <<>> THEN 0 ELSE Head(q) + SumSeq(Tail(q))

\* confidences[]: one entry per Decision Record that is present, in the
\* order contact, validation, classification, transaction match
confidences(s) ==
  (IF IsSome(s.contactMatchDecision)
     THEN <<Val(s.contactMatchDecision).confidence>> ELSE <<>>)
  \o (IF IsSome(s.validationDecision)
        THEN <<Val(s.validationDecision).confidence>> ELSE <<>>)
  \o (IF IsSome(s.kostenpostDecision)
        THEN <<Val(s.kostenpostDecision).confidence>> ELSE <<>>)
  \o (IF IsSome(s.matchDecision)
        THEN <<Val(s.matchDecision).confidence>> ELSE <<>>)

\* Variant: the sum divided by the number of stages instead of the number
\* of records present
overallConfidenceFixedDenominator(s) ==
  (ConfScale * SumSeq(confidences(s))) \div 4

\* reduce(+) / length, or 0; in units of 1/ConfScale
overallConfidence(s) ==
  IF Len(confidences(s)) > 0
    THEN (ConfScale * SumSeq(confidences(s))) \div Len(confidences(s))
    ELSE 0

isHighAmount(s) ==
  (IF IsSome(s.invoice) THEN Val(s.invoice).total_price_incl_tax ELSE 0)
     > AMOUNT_REVIEW_THRESHOLD

requiresReview(s) ==
  \/ IsSome(s.contactMatchDecision) /\ Val(s.contactMatchDecision).requiresReview
  \/ IsSome(s.validationDecision) /\ Val(s.validationDecision).requiresReview
  \/ IsSome(s.kostenpostDecision) /\ Val(s.kostenpostDecision).requiresReview
  \/ IsSome(s.matchDecision) /\ Val(s.matchDecision).requiresReview

\* Variant: the special conditions without the new-supplier test
gateActionNoNewSupplier(s) ==
  IF isHighAmount(s) \/ requiresReview(s) THEN "alert_user"
  ELSE IF overallConfidence(s) >= ConfScale * CONFIDENCE_AUTO_THRESHOLD THEN "auto_book"
  ELSE IF overallConfidence(s) >= ConfScale * CONFIDENCE_REVIEW_THRESHOLD THEN "flag_review"
  ELSE "alert_user"

\* Variant: strict comparisons against the thresholds
gateActionStrict(s) ==
  IF s.isNewContact \/ isHighAmount(s) \/ requiresReview(s) THEN "alert_user"
  ELSE IF overallConfidence(s) > ConfScale * CONFIDENCE_AUTO_THRESHOLD THEN "auto_book"
  ELSE IF overallConfidence(s) > ConfScale * CONFIDENCE_REVIEW_THRESHOLD THEN "flag_review"
  ELSE "alert_user"

gateAction(s) ==
  IF s.isNewContact \/ isHighAmount(s) \/ requiresReview(s) THEN "alert_user"
  ELSE IF overallConfidence(s) >= ConfScale * CONFIDENCE_AUTO_THRESHOLD THEN "auto_book"
  ELSE IF overallConfidence(s) >= ConfScale * CONFIDENCE_REVIEW_THRESHOLD THEN "flag_review"
  ELSE "alert_user"

confidenceGate(s) ==
  [s EXCEPT !.currentNode = "confidenceGate",
            !.overallConfidence = Some(overallConfidence(s)),
            !.action = gateAction(s)]

\* Variant: the router without its error test
routeAfterConfidenceGateNoErrorTest(s) ==
  IF s.action = "auto_book" THEN "autoBook" ELSE "alert"

routeAfterConfidenceGate(s) ==
  IF ErrorIsSet(s.error) THEN "alert"
  ELSE IF s.action = "auto_book" THEN "autoBook"
  ELSE "alert"

ConfidenceGate ==
  /\ pc = "confidenceGate"
  /\ LET s2 == confidenceGate(st)
     IN /\ st' = s2
        /\ pc' = routeAfterConfidenceGate(s2)
  /\ trace' = Append(trace, "confidenceGate")
  /\ UNCHANGED <<mb, processed, run, writes, calls, processedAtStart, mbAtStart,
               memory, attempts, oracle, requests, notify, schedVars>>

\* -------------------------------------------------------------- autoBook
\* The update AutoBook sends: contact, amounts of the state's invoice made
\* positive, date of the extraction
autoBookUpdate(inv, s) ==
  LET v == Val(s.invoice)
  IN [inv EXCEPT
        !.contact_id = IF s.contact THEN TRUE ELSE @,
        !.invoice_date = IF IsSome(s.extraction) /\ Val(s.extraction).invoice_date
                           THEN TRUE ELSE @,
        !.total_price_excl_tax = Abs(v.total_price_excl_tax),
        !.total_price_incl_tax = Abs(v.total_price_incl_tax),
        !.tax = IF v.tax.t = "undefined" THEN @ ELSE JsNum(Abs(v.tax.v))]

\* Variant: the invoice is recorded as processed whatever the update did
autoBookProcessedAlways(p, i, updOk, logOk, markOk) == markInvoiceProcessed(p, i)

\* processed_invoices after the node: markInvoiceProcessed is reached only
\* when the update and the log write before it did not throw
autoBookProcessed(p, i, updOk, logOk, markOk) ==
  IF updOk /\ logOk /\ markOk THEN markInvoiceProcessed(p, i) ELSE p

\* updOk: the platform accepted the update; logOk, markOk: the table writes
\* succeeded; log2Ok: the log write of the catch block succeeded
AutoBook ==
  /\ pc = "autoBook"
  /\ trace' = Append(trace, "autoBook")
  /\ UNCHANGED <<run, processedAtStart, mbAtStart, memory, attempts, oracle, requests, notify, schedVars>>
  /\ IF ~IsSome(st.invoice)
       THEN /\ st' = [st EXCEPT !.error = "No invoice available",
                                 !.currentNode = "autoBook"]
            /\ pc' = edge("autoBook")
            /\ UNCHANGED <<mb, processed, writes, calls>>
     ELSE IF st.action # "auto_book"
       THEN /\ st' = [st EXCEPT !.error = "Action is not auto_book",
                                 !.currentNode = "autoBook"]
            /\ pc' = edge("autoBook")
            /\ UNCHANGED <<mb, processed, writes, calls>>
     ELSE
       LET i == Val(st.invoice).id IN
       /\ \E updOk \in BOOLEAN :
          \E logOk \in Only(updOk, BOOLEAN, TRUE) :
          \E markOk \in Only(updOk /\ logOk, BOOLEAN, TRUE) :
          \E log2Ok \in Only(~(updOk /\ logOk /\ markOk), BOOLEAN, TRUE) :
            LET mUpd == SetInv(mb, i, autoBookUpdate(mb[i].inv, st)) IN
            /\ writes' = writes \cup {Write("update", i, "autoBook")}
                 \cup (IF updOk THEN {} ELSE {Write("updateRejected", i, "autoBook")})
            /\ mb' = IF updOk THEN mUpd ELSE mb
            /\ processed' = autoBookProcessed(processed, i, updOk, logOk, markOk)
            /\ calls' = calls
                 \cup (IF updOk /\ logOk
                         THEN {Call("logProcessing", i, "autoBook", FALSE)} ELSE {})
                 \cup (IF updOk /\ logOk /\ markOk
                         THEN {Marked(i, "autoBook", "completed")} ELSE {})
                 \cup (IF ~(updOk /\ logOk /\ markOk) /\ log2Ok
                         THEN {Call("logProcessing", i, "autoBook", TRUE)} ELSE {})
            /\ IF updOk /\ logOk /\ markOk
                 THEN /\ st' = [st EXCEPT
                                  !.currentNode = "autoBook",
                                  !.invoice = Some(ClientInvoice(i, mUpd[i].inv, FALSE))]
                      /\ pc' = edge("autoBook")
               ELSE IF log2Ok
                 THEN /\ st' = [st EXCEPT !.error = "Unknown error in autoBook",
                                          !.currentNode = "autoBook"]
                      /\ pc' = edge("autoBook")
               ELSE /\ st' = st
                    /\ pc' = "FAILED"

\* Variant: alert without its early return for a run that found nothing
alertNothingToDoNever(s) == FALSE

\* ----------------------------------------------------------------- alert
\* The first test of the node: nothing to process and nothing went wrong
alertNothingToDo(s) == ~IsSome(s.invoice) /\ ~ErrorIsSet(s.error)

\* The status alert passes to markInvoiceProcessed
alertStatus(s) == IF s.action = "auto_book" THEN "completed" ELSE "review"

\* reasons[]: why review is required
reasons(s) ==
  (IF s.isNewContact THEN {"new_supplier"} ELSE {})
  \cup (IF IsSome(s.contactMatchDecision) /\ Val(s.contactMatchDecision).requiresReview
          THEN {"contact_match_low_confidence"} ELSE {})
  \cup (IF IsSome(s.validationDecision) /\ Val(s.validationDecision).requiresReview
          THEN {"validation_issue"} ELSE {})
  \cup (IF IsSome(s.kostenpostDecision) /\ Val(s.kostenpostDecision).requiresReview
          THEN {"kostenpost_classification_uncertain"} ELSE {})
  \cup (IF IsSome(s.matchDecision) /\ Val(s.matchDecision).requiresReview
          THEN {"transaction_match_uncertain"} ELSE {})

requiresHumanIntervention(s) ==
  \/ s.action = "alert_user"
  \/ s.action = "flag_review"
  \/ ErrorIsSet(s.error)
  \/ reasons(s) # {}

\* logOk, markOk: logProcessing / markInvoiceProcessed succeeded.  The
\* notification is sent after both, without waiting for its delivery.
Alert ==
  /\ pc = "alert"
  /\ trace' = Append(trace, "alert")
  /\ pc' = edge("alert")
  /\ UNCHANGED <<mb, run, writes, processedAtStart, mbAtStart, memory,
               attempts, oracle, requests, notify, schedVars>>
  /\ IF alertNothingToDo(st)
       THEN /\ st' = [st EXCEPT !.currentNode = "alert"]
            /\ UNCHANGED <<processed, calls>>
     ELSE IF ~IsSome(st.invoice)
       THEN /\ st' = [st EXCEPT
                        !.error = "No invoice available or invoice ID missing",
                        !.currentNode = "alert"]
            /\ UNCHANGED <<processed, calls>>
     ELSE
       LET i == Val(st.invoice).id IN
       \E logOk \in BOOLEAN :
       \E markOk \in Only(logOk, BOOLEAN, TRUE) :
         IF logOk /\ markOk
           THEN /\ processed' = markInvoiceProcessed(processed, i)
                /\ calls' = calls
                     \cup {Call("logProcessing", i, "alert", FALSE),
                           Marked(i, "alert", alertStatus(st))}
                     \cup (IF requiresHumanIntervention(st)
                             THEN {Call("sendErrorAlert", i, "alert",
                                        ErrorIsSet(st.error))}
                             ELSE {})
                /\ st' = [st EXCEPT !.currentNode = "alert"]
           ELSE /\ UNCHANGED processed
                /\ calls' = calls
                     \cup (IF logOk THEN {Call("logProcessing", i, "alert", FALSE)}
                                    ELSE {})
                /\ st' = [st EXCEPT !.error = "Unknown error in alert",
                                    !.currentNode = "alert"]

\* ------------------------------------------------------ runAgentWorkflow
\* A run starts from createInitialState() once the previous one is over
StartRun ==
  /\ pc \in {"idle", "END", "FAILED"}
  /\ run < MaxRuns
  /\ run' = run + 1
  /\ st' = createInitialState
  /\ pc' = "detectNewInvoices"
  /\ trace' = <<>>
  /\ writes' = {}
  /\ processedAtStart' = processed
  /\ mbAtStart' = mb
  /\ calls' = {}
  /\ attempts' = <<>>
  /\ requests' = <<>>
  /\ UNCHANGED <<mb, processed, memory, oracle, notify, schedVars>>

Next ==
  \/ StartRun
  \/ DetectNewInvoices
  \/ CheckCompleteness
  \/ ScanInvoicePdf
  \/ ResolveContact
  \/ ValidateInvoice
  \/ ClassifyKostenpost
  \/ MatchTransactions
  \/ ConfidenceGate
  \/ AutoBook
  \/ Alert

Spec == Init /\ [][Next]_vars


\* ------------------------------------------------ confidenceGate in isolation
\* The gate as a function of the Workflow State: the state it is applied to
\* is drawn from the values the State type admits.
GateConfidences == {0, 79, 80, 95, 100}
GateDecisions ==
  {None} \cup { Some(Decision(c, r)) : c \in GateConfidences, r \in BOOLEAN }
GateInvoices ==
  {None} \cup
  { Some(ClientInvoice(1, MkInvoice("draft", TRUE, a, a, JsNum(0), TRUE, FALSE, FALSE),
                       TRUE)) :
      a \in {AMOUNT_REVIEW_THRESHOLD, AMOUNT_REVIEW_THRESHOLD + 1} }

GateInit ==
  /\ \E inv \in GateInvoices, isNew \in BOOLEAN :
     \E c \in GateDecisions, v \in GateDecisions :
     \E k \in GateDecisions, m \in GateDecisions :
       st = [createInitialState EXCEPT
               !.invoice = inv, !.isNewContact = isNew,
               !.contactMatchDecision = c, !.validationDecision = v,
               !.kostenpostDecision = k, !.matchDecision = m,
               !.currentNode = "matchTransactions"]
  /\ mb = [i \in AllIds |-> IF i \in InvoiceIds
                              THEN [exists |-> TRUE, inv |-> TemplateAt(1, i)]
                              ELSE Absent]
  /\ processed = {}
  /\ pc = "confidenceGate"
  /\ run = 1
  /\ trace = <<>>
  /\ writes = {}
  /\ processedAtStart = {}
  /\ mbAtStart = mb
  /\ calls = {}
  /\ notify = NotifyIdle
  /\ requests = <<>>
  /\ memory = <<>>
  /\ attempts = <<>>
  /\ oracle = NoOracle
  /\ tasks = [k \in 1..MaxTasks |-> FreeTask]
  /\ schedulerOn = FALSE
  /\ selected = [k \in 1..MaxTasks |-> 0]

GateNext == ConfidenceGate

GateSpec == GateInit /\ [][GateNext]_vars

\* ----------------------------------------------------------------- scheduler
\* The lowest free run slot
freeSlots == { k \in 1..MaxTasks : tasks[k].phase = "free" }

\* runAgentWorkflow(): the call returns a promise; the run is in flight until
\* the stream of the graph is exhausted (or throws)
runAgentWorkflow(origin) ==
  /\ freeSlots # {}
  /\ tasks' = [tasks EXCEPT ![Min(freeSlots)] = [origin |-> origin, phase |-> "running"]]

\* startScheduler(): registers the periodic task and runs once immediately
startScheduler ==
  /\ ~schedulerOn
  /\ schedulerOn' = TRUE
  /\ runAgentWorkflow("immediate")
  /\ UNCHANGED <<selected, pipelineVars>>

\* The periodic task fires
ScheduledTick ==
  /\ schedulerOn
  /\ runAgentWorkflow("tick")
  /\ UNCHANGED <<schedulerOn, selected, pipelineVars>>

\* triggerWorkflow(): manual trigger
triggerWorkflow ==
  /\ runAgentWorkflow("manual")
  /\ UNCHANGED <<schedulerOn, selected, pipelineVars>>

\* A run in flight ends: workflow_completed or workflow_failed
WorkflowEnds ==
  /\ \E k \in 1..MaxTasks, how \in {"completed", "failed"} :
       /\ tasks[k].phase = "running"
       /\ tasks' = [tasks EXCEPT ![k].phase = how]
  /\ UNCHANGED <<schedulerOn, selected, pipelineVars>>

\* stopScheduler(): the periodic task is cancelled; runs in flight go on
stopScheduler ==
  /\ schedulerOn
  /\ schedulerOn' = FALSE
  /\ UNCHANGED <<tasks, selected, pipelineVars>>

\* detectNewInvoices of a run in flight selects the first invoice that is in
\* an unprocessed state and not in processed_invoices
RunDetects ==
  /\ \E k \in 1..MaxTasks :
       /\ tasks[k].phase = "running"
       /\ selected[k] = 0
       /\ unprocessedInvoices # {}
       /\ selected' = [selected EXCEPT ![k] = Min(unprocessedInvoices)]
  /\ UNCHANGED <<tasks, schedulerOn, pipelineVars>>

\* alert or autoBook of a run in flight records its invoice as processed
RunRecords ==
  /\ \E k \in 1..MaxTasks :
       /\ tasks[k].phase = "running"
       /\ selected[k] # 0
       /\ ~isInvoiceProcessed(selected[k])
       /\ processed' = markInvoiceProcessed(processed, selected[k])
  /\ UNCHANGED <<mb, st, pc, run, trace, writes, processedAtStart, mbAtStart,
               calls, memory, attempts, requests, notify, oracle, schedVars>>

SchedNext ==
  \/ startScheduler
  \/ ScheduledTick
  \/ triggerWorkflow
  \/ RunDetects
  \/ RunRecords
  \/ WorkflowEnds
  \/ stopScheduler

SchedSpec == Init /\ [][SchedNext]_vars

\* ------------------------------------------------------ one run, with fairness
\* A single run of the graph in which every stage that is entered completes:
\* each external call returns or fails.  The processed-invoices table may
\* already hold the invoices of earlier runs.
FairInit ==
  /\ \E k \in 1..Len(InvoiceTemplates) :
       mb = [i \in AllIds |-> IF i \in InvoiceIds
                                THEN [exists |-> TRUE, inv |-> TemplateAt(k, i)]
                                ELSE Absent]
  /\ processed \in {{}, InvoiceIds}
  /\ st = createInitialState
  /\ pc = "idle"
  /\ run = 0
  /\ trace = <<>>
  /\ writes = {}
  /\ processedAtStart = processed
  /\ mbAtStart = mb
  /\ calls = {}
  /\ notify = NotifyIdle
  /\ requests = <<>>
  /\ memory \in {<<>>, <<Row("S", "k1", 90, 1)>>}
  /\ attempts = <<>>
  /\ oracle = NoOracle
  /\ tasks = [k \in 1..MaxTasks |-> FreeTask]
  /\ schedulerOn = FALSE
  /\ selected = [k \in 1..MaxTasks |-> 0]

\* graph.stream(createInitialState()), once
FirstRun == run = 0 /\ StartRun

Stage ==
  \/ DetectNewInvoices
  \/ CheckCompleteness
  \/ ScanInvoicePdf
  \/ ResolveContact
  \/ ValidateInvoice
  \/ ClassifyKostenpost
  \/ MatchTransactions
  \/ ConfidenceGate
  \/ AutoBook
  \/ Alert

FairNext == FirstRun \/ Stage

FairSpec == FairInit /\ [][FairNext]_vars /\ WF_vars(Stage)

\* ------------------------------------------------- validateInvoice, alone
\* The node applied to an invoice of 100 excl. and 121 incl. tax (in cents)
\* whose recorded tax and whose model answer are drawn at the start.
ValidatorTaxes ==
  { JsNum(t) : t \in {0, 19, 20, 21, 22, 23, 120, 121, 122, 123} }
    \cup {JsNull, JsUndefined}

ValidatorDecisions ==
  { Decision(c, r) : c \in {10, 20, 60, 100}, r \in BOOLEAN }

ValidateInit ==
  /\ \E tx \in ValidatorTaxes :
       st = [createInitialState EXCEPT
               !.invoice = Some(ClientInvoice(1,
                             MkInvoice("draft", TRUE, 100, 121, tx, TRUE, TRUE, TRUE),
                             TRUE)),
               !.contact = TRUE,
               !.currentNode = "resolveContact"]
  /\ \E llm \in {None} \cup { Some(d) : d \in ValidatorDecisions } :
       oracle = [NoOracle EXCEPT !.llm = llm]
  /\ mb = [i \in AllIds |-> IF i \in InvoiceIds
                              THEN [exists |-> TRUE, inv |-> TemplateAt(1, i)]
                              ELSE Absent]
  /\ processed = {}
  /\ pc = "validateInvoice"
  /\ run = 1
  /\ trace = <<>>
  /\ writes = {}
  /\ processedAtStart = {}
  /\ mbAtStart = mb
  /\ calls = {}
  /\ notify = NotifyIdle
  /\ requests = <<>>
  /\ memory = <<>>
  /\ attempts = <<>>
  /\ tasks = [k \in 1..MaxTasks |-> FreeTask]
  /\ schedulerOn = FALSE
  /\ selected = [k \in 1..MaxTasks |-> 0]

\* validateInvoice(state) with the model answering oracle.llm
ValidateInvoiceGiven ==
  /\ pc = "validateInvoice"
  /\ st' = validateInvoice(st, oracle.llm)
  /\ pc' = edge("validateInvoice")
  /\ trace' = Append(trace, "validateInvoice")
  /\ UNCHANGED <<mb, processed, run, writes, calls, processedAtStart, mbAtStart,
               memory, attempts, oracle, requests, notify, schedVars>>

ValidateNext == ValidateInvoiceGiven

ValidateSpec == ValidateInit /\ [][ValidateNext]_vars

\* -------------------------------------------------- resolveContact, alone
\* The node applied to the state in which a run reaches it, with the answers
\* of its external calls (oracle) drawn at the start.
ResolveInit ==
  /\ \E k \in 1..Len(InvoiceTemplates) :
       mb = [i \in AllIds |-> IF i \in InvoiceIds
                                THEN [exists |-> TRUE, inv |-> TemplateAt(k, i)]
                                ELSE Absent]
  /\ processed = {}
  /\ \E contactOk \in BOOLEAN, scan \in PipelineScans :
       LET s1 == checkCompleteness(detectNewInvoices(createInitialState, TRUE, contactOk))
           r == routeAfterCompleteness(s1)
       IN /\ r # "alert"
          /\ st = IF r = "scanInvoicePdf"
                    THEN scanInvoicePdf(s1, scan.doc, scan.answer) ELSE s1
          /\ attempts = IF r = "scanInvoicePdf" THEN scanAttempts(s1, scan.doc) ELSE <<>>
          /\ trace = IF r = "scanInvoicePdf"
                       THEN <<"detectNewInvoices", "checkCompleteness", "scanInvoicePdf">>
                       ELSE <<"detectNewInvoices", "checkCompleteness">>
  /\ \E search \in ContactSearch :
     \E llm \in Only(search \in {"nomatch", "empty"},
                     {None} \cup { Some(d) : d \in LLMMatchDecisions }, None) :
     \E getOk \in BOOLEAN, createOk \in BOOLEAN :
     \E u1 \in UpdateResults, u3 \in UpdateResults :
     \E u2 \in Only(u1 = "ok", UpdateResults, "ok") :
     \E cInv \in Only(u3 = "e422", BOOLEAN, FALSE) :
     \E del \in Only(cInv, BOOLEAN, FALSE) :
     \E db \in Only(cInv /\ ~del, BOOLEAN, FALSE) :
       oracle = [llm |-> None, search |-> search, match |-> llm, getOk |-> getOk,
                 createOk |-> createOk, u1 |-> u1, u2 |-> u2, u3 |-> u3,
                 cInv |-> cInv, del |-> del, db |-> db]
  /\ pc = "resolveContact"
  /\ run = 1
  /\ writes = {}
  /\ processedAtStart = {}
  /\ mbAtStart = mb
  /\ calls = {}
  /\ notify = NotifyIdle
  /\ requests = <<>>
  /\ memory = <<>>
  /\ tasks = [k \in 1..MaxTasks |-> FreeTask]
  /\ schedulerOn = FALSE
  /\ selected = [k \in 1..MaxTasks |-> 0]

\* resolveContact(state) with its external calls answering as oracle says
ResolveContactGiven ==
  /\ pc = "resolveContact"
  /\ LET o == resolveContact(st, mb, processed, writes, calls, oracle.search,
                             oracle.match, oracle.getOk, oracle.createOk, oracle.u1,
                             oracle.u2, oracle.u3, oracle.cInv, oracle.del, oracle.db)
     IN /\ st' = o.s
        /\ mb' = o.mb
        /\ processed' = o.processed
        /\ writes' = o.writes
        /\ calls' = o.calls
        /\ requests' = resolveRequests(st, mb, oracle.search, oracle.match,
                                       oracle.getOk, oracle.createOk, oracle.u1,
                                       oracle.u2, oracle.u3, oracle.cInv,
                                       oracle.del, oracle.db)
  /\ pc' = edge("resolveContact")
  /\ trace' = Append(trace, "resolveContact")
  /\ UNCHANGED <<run, processedAtStart, mbAtStart, memory, attempts, oracle,
               notify, schedVars>>

ResolveNext == ResolveContactGiven

ResolveSpec == ResolveInit /\ [][ResolveNext]_vars

\* --------------------------------------------------------- autoBook, alone
\* Invoice 1 as the platform may hold it when autoBook is reached: complete,
\* a credit note with negative amounts, or without a recorded tax
BookInvoices ==
  { MkInvoice("draft", TRUE, 4000, 5000, JsNum(1000), TRUE, TRUE, TRUE),
    MkInvoice("draft", FALSE, 0 - 4000, 0 - 5000, JsNum(0 - 1000), TRUE, TRUE, TRUE),
    MkInvoice("draft", TRUE, 4000, 5000, JsNull, FALSE, TRUE, TRUE) }

\* The node applied to the states the gate sends to it
BookInit ==
  /\ \E inv \in BookInvoices :
       mb = [i \in AllIds |-> IF i = 1 THEN [exists |-> TRUE, inv |-> inv]
                              ELSE IF i \in InvoiceIds
                                THEN [exists |-> TRUE, inv |-> TemplateAt(1, i)]
                              ELSE Absent]
  /\ \E contact \in BOOLEAN :
     \E extraction \in {None} \cup { Some(e) : e \in Extractions } :
     \E c \in {95, 100}, v \in {95, 100}, k \in {95, 100}, m \in {95, 100} :
       st = confidenceGate(
              [createInitialState EXCEPT
                 !.invoice = Some(ClientInvoice(1, mb[1].inv, contact)),
                 !.contact = contact, !.extraction = extraction,
                 !.contactMatchDecision = Some(Decision(c, FALSE)),
                 !.validationDecision = Some(Decision(v, FALSE)),
                 !.kostenpostDecision = Some(Decision(k, FALSE)),
                 !.matchDecision = Some(Decision(m, FALSE))])
  /\ routeAfterConfidenceGate(st) = "autoBook"
  /\ processed = {}
  /\ pc = "autoBook"
  /\ run = 1
  /\ trace = <<"confidenceGate">>
  /\ writes = {}
  /\ processedAtStart = {}
  /\ mbAtStart = mb
  /\ calls = {}
  /\ notify = NotifyIdle
  /\ requests = <<>>
  /\ memory = <<>>
  /\ attempts = <<>>
  /\ oracle = NoOracle
  /\ tasks = [t \in 1..MaxTasks |-> FreeTask]
  /\ schedulerOn = FALSE
  /\ selected = [k \in 1..MaxTasks |-> 0]

BookNext == AutoBook

BookSpec == BookInit /\ [][BookNext]_vars

\* ------------------------------------------- recordKostenpostMapping, alone
\* Calls of recordKostenpostMapping on a table that starts empty
MaxCalls == 3
SupplierNames == {"S", "T"}
MappingCalls ==
  { [supplier_name |-> n, kostenpost_id |-> k, confidence |-> c] :
      n \in SupplierNames, k \in LedgerAccounts,
      c \in {JsNum(80), JsNum(100), JsUndefined} }

NoCall == [supplier_name |-> "", kostenpost_id |-> "", confidence |-> JsUndefined]

MemoryInit ==
  /\ memory = <<>>
  /\ oracle = [llm |-> None, call |-> NoCall]
  /\ mb = [i \in AllIds |-> IF i \in InvoiceIds
                              THEN [exists |-> TRUE, inv |-> TemplateAt(1, i)]
                              ELSE Absent]
  /\ processed = {}
  /\ st = createInitialState
  /\ pc = "idle"
  /\ run = 0
  /\ trace = <<>>
  /\ writes = {}
  /\ processedAtStart = {}
  /\ mbAtStart = mb
  /\ calls = {}
  /\ notify = NotifyIdle
  /\ requests = <<>>
  /\ attempts = <<>>
  /\ tasks = [k \in 1..MaxTasks |-> FreeTask]
  /\ schedulerOn = FALSE
  /\ selected = [k \in 1..MaxTasks |-> 0]

\* recordKostenpostMapping(params); oracle.call keeps the parameters
RecordKostenpostMapping ==
  /\ SumSeq([j \in 1..Len(memory) |-> memory[j].usage_count]) < MaxCalls
  /\ \E call \in MappingCalls :
       /\ memory' = recordKostenpostMapping(memory, call.supplier_name,
                                            call.kostenpost_id, call.confidence)
       /\ oracle' = [oracle EXCEPT !.call = call]
  /\ UNCHANGED <<mb, processed, st, pc, run, trace, writes, processedAtStart,
               mbAtStart, calls, attempts, requests, notify, schedVars>>

MemoryNext == RecordKostenpostMapping

MemorySpec == MemoryInit /\ [][MemoryNext]_vars

\* ------------------------------------------------------ sendErrorAlert, alone
\* The settings a channel needs; env is the set of settings that are present.
ChannelSettings ==
  [email    |-> {"EMAIL_SMTP_HOST", "EMAIL_SMTP_USER", "EMAIL_TO"},
   whatsapp |-> {"TWILIO_ACCOUNT_SID", "TWILIO_AUTH_TOKEN", "WHATSAPP_TO"},
   telegram |-> {"TELEGRAM_BOT_TOKEN", "TELEGRAM_CHAT_IDS"}]

\* Every setting sendErrorAlert reads.  The envSchema of config/env.ts names
\* no Telegram setting, so an env parsed by it never configures Telegram; the
\* subsets without the Telegram settings are that case.
Settings == UNION { ChannelSettings[c] : c \in Channels }

configured(c, env) == ChannelSettings[c] \subseteq env

\* As startChannels, but each send is awaited before the next one is called
startChannelsInTurn(env) ==
  LET first == CHOOSE c \in Channels :
                 /\ configured(c, env)
                 /\ \A d \in Channels : configured(d, env) =>
                      \/ d = c
                      \/ (c = "email")
                      \/ (c = "whatsapp" /\ d = "telegram")
  IN [c \in Channels |->
        IF ~configured(c, env) THEN "skipped"
        ELSE IF c = first THEN "pending" ELSE "idle"]

\* The three ifs of sendErrorAlert: the send of every configured channel is
\* called and its promise pushed, none is awaited; the others are passed over.
startChannels(env) ==
  [c \in Channels |-> IF configured(c, env) THEN "pending" ELSE "skipped"]

\* The promise pushed for a channel: the send's promise with .catch(log)
caught(phase) == IF phase = "rejected" THEN "fulfilled" ELSE phase

\* Promise.allSettled(promises): fulfilled once no promise is pending
allSettled(phases) ==
  IF \E c \in Channels : phases[c] = "pending" THEN "pending" ELSE "fulfilled"

\* The alert node has called sendErrorAlert, which has not started to run
NotifyInit ==
  /\ oracle \in [llm : {None}, env : SUBSET Settings]
  /\ notify = NotifyIdle
  /\ requests = <<>>
  /\ memory = <<>>
  /\ attempts = <<>>
  /\ mb = [i \in AllIds |-> IF i \in InvoiceIds
                              THEN [exists |-> TRUE, inv |-> TemplateAt(1, i)]
                              ELSE Absent]
  /\ processed = {}
  /\ st = createInitialState
  /\ pc = "idle"
  /\ run = 0
  /\ trace = <<>>
  /\ writes = {}
  /\ processedAtStart = {}
  /\ mbAtStart = mb
  /\ calls = {}
  /\ tasks = [k \in 1..MaxTasks |-> FreeTask]
  /\ schedulerOn = FALSE
  /\ selected = [k \in 1..MaxTasks |-> 0]

NotifyFrame ==
  UNCHANGED <<mb, processed, st, pc, run, trace, writes, processedAtStart,
              mbAtStart, calls, memory, attempts, requests, oracle,
              schedVars>>

\* sendErrorAlert up to its await
SendErrorAlert ==
  /\ notify.alert = "idle"
  /\ notify' = [channel |-> startChannels(oracle.env), alert |-> "pending"]
  /\ NotifyFrame

\* The send of channel c settles: delivered, or rejected
SettleChannel(c) ==
  /\ notify.channel[c] = "pending"
  /\ \E delivered \in BOOLEAN :
       notify' = [notify EXCEPT !.channel[c] =
                    IF delivered THEN "fulfilled" ELSE "rejected"]
  /\ NotifyFrame

\* await Promise.allSettled(promises) returns, and sendErrorAlert with it
SendErrorAlertSettles ==
  /\ notify.alert = "pending"
  /\ allSettled([c \in Channels |-> caught(notify.channel[c])]) # "pending"
  /\ notify' = [notify EXCEPT !.alert =
                  allSettled([c \in Channels |-> caught(notify.channel[c])])]
  /\ NotifyFrame

NotifyNext ==
  \/ SendErrorAlert
  \/ \E c \in Channels : SettleChannel(c)
  \/ SendErrorAlertSettles

NotifySpec == NotifyInit /\ [][NotifyNext]_vars

\* --------------------------------------------------- scanInvoicePdf, alone
\* Every answer of the outside world to the acquisition of the document.
\* createInitialState() leaves invoicePdfPath undefined and no node sets it.
ScanDocs ==
  { MkDoc("none", attUrl, attId, receipt, list, api, fetch, parse, cache) :
      attUrl \in BOOLEAN, attId \in BOOLEAN,
      receipt \in {"url", "nourl", "fail"},
      list \in {"fail", "empty", "url", "pdf", "badpdf"},
      api \in BOOLEAN, fetch \in BOOLEAN, parse \in BOOLEAN, cache \in BOOLEAN }

\* Extractions the model may answer with: the zero extraction and one of
\* half a cent among them
ScanExtractions ==
  Extractions
    \cup { ZeroExtraction,
           MkExtraction(70, TRUE, JsNum(125), JsNum(0), JsNull, FALSE) }

ScanAnswers == {ModelFails, ModelNoJson} \cup { ModelJson(e) : e \in ScanExtractions }

\* Invoices the scan may be given: with and without an attachment, with
\* amounts present or still missing
ScanInvoices ==
  { MkInvoice("draft", FALSE, 0, 0, JsUndefined, FALSE, TRUE, TRUE),
    MkInvoice("new", FALSE, 0, 0, JsUndefined, FALSE, FALSE, TRUE),
    MkInvoice("draft", TRUE, 0 - 4000, 0 - 5000, JsNull, TRUE, TRUE, TRUE) }

ScanInit ==
  /\ \E invoice \in ScanInvoices :
       /\ mb = [i \in AllIds |-> IF i = 1 THEN [exists |-> TRUE, inv |-> invoice]
                                 ELSE IF i \in InvoiceIds
                                   THEN [exists |-> TRUE, inv |-> TemplateAt(1, i)]
                                 ELSE Absent]
       /\ st = [createInitialState EXCEPT
                  !.invoice = Some(ClientInvoice(1, invoice, FALSE)),
                  !.currentNode = "checkCompleteness"]
  /\ \E doc \in ScanDocs, answer \in ScanAnswers :
       oracle = [llm |-> None, doc |-> doc, answer |-> answer]
  /\ processed = {}
  /\ pc = "scanInvoicePdf"
  /\ run = 1
  /\ trace = <<>>
  /\ writes = {}
  /\ processedAtStart = {}
  /\ mbAtStart = mb
  /\ calls = {}
  /\ notify = NotifyIdle
  /\ requests = <<>>
  /\ memory = <<>>
  /\ attempts = <<>>
  /\ tasks = [k \in 1..MaxTasks |-> FreeTask]
  /\ schedulerOn = FALSE
  /\ selected = [k \in 1..MaxTasks |-> 0]

\* scanInvoicePdf(state) with the outside world answering as oracle says
ScanInvoicePdfGiven ==
  /\ pc = "scanInvoicePdf"
  /\ st' = scanInvoicePdf(st, oracle.doc, oracle.answer)
  /\ attempts' = scanAttempts(st, oracle.doc)
  /\ pc' = edge("scanInvoicePdf")
  /\ trace' = Append(trace, "scanInvoicePdf")
  /\ UNCHANGED <<mb, processed, run, writes, calls, processedAtStart, mbAtStart,
               memory, oracle, requests, notify, schedVars>>

ScanNext == ScanInvoicePdfGiven

ScanSpec == ScanInit /\ [][ScanNext]_vars

\* ------------------------------------------------ matchTransactions, alone
\* Variant: every listed transaction is a candidate
candidateTransactionsUnfiltered(transactions, invoiceAmount) == transactions

\* transactions.filter(t => Math.abs(t.amount - invoiceAmount) < invoiceAmount * 0.01),
\* amounts in cents
candidateTransactions(transactions, invoiceAmount) ==
  { t \in transactions : Abs(t.amount - invoiceAmount) * 100 < invoiceAmount }

\* candidateTransactions.find(t => t.id === decision.matched_transaction_id),
\* undefined when the model names no transaction (id 0)
matchedTransaction(transactions, invoiceAmount, decision) ==
  LET named == { t \in candidateTransactions(transactions, invoiceAmount) :
                   t.id = decision.matched_transaction_id }
  IN IF decision.matched_transaction_id = 0 \/ named = {} THEN None
     ELSE Some(CHOOSE t \in named : TRUE)

\* Bank transactions of the date window: equal to an invoice amount of 5000,
\* 0.98 % and exactly 1 % below it, and far off
Transactions ==
  { [id |-> 1, amount |-> 5000], [id |-> 2, amount |-> 4951],
    [id |-> 3, amount |-> 4950], [id |-> 4, amount |-> 6000] }

\* Answers of the model: the transaction it names (0: none, 9: an id that is
\* not in the list), its confidence and its flag
MatchAnswers ==
  { [matched_transaction_id |-> t, confidence |-> c, requiresReview |-> r] :
      t \in {0, 1, 4, 9}, c \in {60, 90}, r \in BOOLEAN }

MatchInit ==
  /\ \E incl \in {5000, 0, 0 - 5000}, date \in BOOLEAN :
       st = [createInitialState EXCEPT
               !.invoice = Some(ClientInvoice(1,
                             MkInvoice("draft", TRUE, incl, incl, JsNum(0), date,
                                       TRUE, TRUE), TRUE)),
               !.contact = TRUE,
               !.currentNode = "classifyKostenpost"]
  /\ \E listOk \in BOOLEAN, transactions \in SUBSET Transactions :
     \E answer \in {None} \cup { Some(a) : a \in MatchAnswers } :
       oracle = [llm |-> None, listOk |-> listOk, transactions |-> transactions,
                 answer |-> answer]
  /\ mb = [i \in AllIds |-> IF i \in InvoiceIds
                              THEN [exists |-> TRUE, inv |-> TemplateAt(1, i)]
                              ELSE Absent]
  /\ processed = {}
  /\ pc = "matchTransactions"
  /\ run = 1
  /\ trace = <<>>
  /\ writes = {}
  /\ processedAtStart = {}
  /\ mbAtStart = mb
  /\ calls = {}
  /\ notify = NotifyIdle
  /\ requests = <<>>
  /\ memory = <<>>
  /\ attempts = <<>>
  /\ tasks = [k \in 1..MaxTasks |-> FreeTask]
  /\ schedulerOn = FALSE
  /\ selected = [k \in 1..MaxTasks |-> 0]

\* matchTransactions(state) with listTransactions and the model answering
\* as oracle says
MatchTransactionsGiven ==
  /\ pc = "matchTransactions"
  /\ LET invoiceAmount == Val(st.invoice).total_price_incl_tax
         candidates == candidateTransactions(oracle.transactions, invoiceAmount)
         llm == IF IsSome(oracle.answer)
                  THEN Some(Decision(Val(oracle.answer).confidence,
                                     Val(oracle.answer).requiresReview))
                  ELSE None
         found == /\ IsSome(oracle.answer)
                  /\ IsSome(matchedTransaction(oracle.transactions, invoiceAmount,
                                               Val(oracle.answer)))
     IN st' = matchTransactions(st, oracle.listOk, candidates # {}, llm, found)
  /\ pc' = edge("matchTransactions")
  /\ trace' = Append(trace, "matchTransactions")
  /\ UNCHANGED <<mb, processed, run, writes, calls, processedAtStart, mbAtStart,
               memory, attempts, oracle, requests, notify, schedVars>>

MatchNext == MatchTransactionsGiven

MatchSpec == MatchInit /\ [][MatchNext]_vars

\* =================================================================== claims
GateRan == st.currentNode = "confidenceGate"

\* C1 Gate override: whenever confidenceGate has run on a state in which
\* isNewContact is true, or the invoice's tax-inclusive amount exceeds
\* AMOUNT_REVIEW_THRESHOLD, or a present Decision Record has requiresReview
\* true, the chosen action is alert_user, whatever the aggregate confidence.
GateOverride ==
  (GateRan
     /\ \/ st.isNewContact
        \/ IsSome(st.invoice)
             /\ Val(st.invoice).total_price_incl_tax > AMOUNT_REVIEW_THRESHOLD
        \/ \E d \in {st.contactMatchDecision, st.validationDecision,
                     st.kostenpostDecision, st.matchDecision} :
             IsSome(d) /\ Val(d).requiresReview)
  => st.action = "alert_user"

\* The gate ran on a new contact with aggregate 100, nothing else asking for
\* review, and chose alert_user
GateOverrideWitness ==
  /\ GateRan
  /\ st.isNewContact
  /\ st.overallConfidence = Some(ConfScale * 100)
  /\ ~isHighAmount(st)
  /\ ~requiresReview(st)
  /\ st.action = "alert_user"

\* C2 Idempotence across runs: an invoice id that was in the processed table
\* when a run started is not the invoice that run's detectNewInvoices selects,
\* and the run issues no platform write on its behalf; the table never loses
\* an id.
IdempotentAcrossRuns ==
  /\ processedAtStart \subseteq processed
  /\ IsSome(st.invoice) => Val(st.invoice).id \notin processedAtStart
  /\ \A w \in writes : w.id \notin processedAtStart

\* A second run works (and writes) on another invoice while an invoice that is
\* still listed in a state detectNewInvoices accepts is in the processed table
IdempotentAcrossRunsWitness ==
  /\ run = 2
  /\ \E i \in processedAtStart :
       mb[i].exists /\ mb[i].inv.state \in unprocessedStates
  /\ IsSome(st.invoice)
  /\ writes # {}

\* C3 A newly created contact is never auto-booked: in a run in which
\* resolveContact created a contact on the platform, isNewContact is true from
\* then on (so when the gate runs), autoBook is never entered and no autoBook
\* update is issued.
NewContactNeverAutoBooked ==
  (\E w \in writes : w.op = "contactCreated")
  => /\ st.isNewContact
     /\ pc # "autoBook"
     /\ \A j \in 1..Len(trace) : trace[j] # "autoBook"
     /\ \A w \in writes : w.by # "autoBook"
     /\ GateRan => st.action = "alert_user"

\* A contact was created, no error is set, the aggregate is above the auto
\* threshold, and the gate still chose alert_user
NewContactNeverAutoBookedWitness ==
  /\ \E w \in writes : w.op = "contactCreated"
  /\ GateRan
  /\ ~ErrorIsSet(st.error)
  /\ Val(st.overallConfidence) >= ConfScale * CONFIDENCE_AUTO_THRESHOLD
  /\ st.action = "alert_user"
  /\ pc = "alert"

\* C4 Serial runs: at most one pipeline run is in flight at any time.
SerialRuns ==
  Cardinality({ k \in 1..MaxTasks : tasks[k].phase = "running" }) <= 1

\* The immediate run of startScheduler is still in flight when the periodic
\* task fires and starts a second run
OverlappingRuns ==
  \E j \in 1..MaxTasks, k \in 1..MaxTasks :
    /\ tasks[j] = [origin |-> "immediate", phase |-> "running"]
    /\ tasks[k] = [origin |-> "tick", phase |-> "running"]

\* C5 Confidence aggregation: overallConfidence is the arithmetic mean of the
\* confidences of exactly the Decision Records that are present, and 0 when
\* none is present.
AggregateIsMean ==
  GateRan =>
    LET recs == <<st.contactMatchDecision, st.validationDecision,
                  st.kostenpostDecision, st.matchDecision>>
        present == { j \in 1..4 : IsSome(recs[j]) }
        n == Cardinality(present)
        conf(j) == IF j \in present THEN Val(recs[j]).confidence ELSE 0
        sum == conf(1) + conf(2) + conf(3) + conf(4)
    IN IF n = 0 THEN st.overallConfidence = Some(0)
       ELSE /\ IsSome(st.overallConfidence)
            /\ Val(st.overallConfidence) * n = ConfScale * sum

\* The gate ran with the validation record absent and the other three
\* present, and the aggregate is their mean 93 (= (100 + 100 + 79) / 3)
AggregateIsMeanWitness ==
  /\ GateRan
  /\ ~IsSome(st.validationDecision)
  /\ IsSome(st.contactMatchDecision) /\ Val(st.contactMatchDecision).confidence = 100
  /\ IsSome(st.kostenpostDecision) /\ Val(st.kostenpostDecision).confidence = 100
  /\ IsSome(st.matchDecision) /\ Val(st.matchDecision).confidence = 79
  /\ st.overallConfidence = Some(ConfScale * 93)

\* C6 Gate thresholds: with no override condition (isNewContact false, amount
\* not above the review threshold, no requiresReview) the action is auto_book
\* iff aggregate >= CONFIDENCE_AUTO_THRESHOLD, flag_review iff
\* CONFIDENCE_REVIEW_THRESHOLD <= aggregate < CONFIDENCE_AUTO_THRESHOLD, and
\* alert_user otherwise.
GateThresholds ==
  (GateRan /\ ~st.isNewContact /\ ~isHighAmount(st) /\ ~requiresReview(st))
  => LET agg == Val(st.overallConfidence)
         auto == ConfScale * CONFIDENCE_AUTO_THRESHOLD
         review == ConfScale * CONFIDENCE_REVIEW_THRESHOLD
     IN /\ st.action = "auto_book" <=> agg >= auto
        /\ st.action = "flag_review" <=> (review <= agg /\ agg < auto)
        /\ st.action = "alert_user" <=> agg < review

\* No override, aggregate exactly at the auto threshold: auto_book
GateThresholdsWitness ==
  /\ GateRan
  /\ ~st.isNewContact /\ ~isHighAmount(st) /\ ~requiresReview(st)
  /\ st.overallConfidence = Some(ConfScale * CONFIDENCE_AUTO_THRESHOLD)
  /\ st.action = "auto_book"

\* C7 Routing after Gate: with an error set the next stage is alert whatever
\* the action; otherwise auto_book leads to autoBook and any other action to
\* alert.  autoBook is entered from no other stage.
RoutingAfterGate ==
  [][ /\ pc = "confidenceGate" =>
           pc' = IF ErrorIsSet(st'.error) THEN "alert"
                 ELSE IF st'.action = "auto_book" THEN "autoBook"
                 ELSE "alert"
      /\ (pc' = "autoBook" /\ pc # "autoBook") => pc = "confidenceGate" ]_vars

\* The gate chose auto_book while an error was set, and alert is next
RoutingAfterGateWitness ==
  /\ Len(trace) > 0
  /\ trace[Len(trace)] = "confidenceGate"
  /\ ErrorIsSet(st.error)
  /\ st.action = "auto_book"
  /\ pc = "alert"

\* C8 Routing after Detect: if detectNewInvoices set an error or selected no
\* invoice the next stage is alert, and no stage from checkCompleteness to the
\* gate runs in that run; otherwise the next stage is checkCompleteness.
RoutingAfterDetect ==
  [][ /\ pc = "detectNewInvoices" =>
           pc' = IF ErrorIsSet(st'.error) \/ ~IsSome(st'.invoice) THEN "alert"
                 ELSE "checkCompleteness"
      /\ (Len(trace') >= 2 /\ trace'[2] = "alert") => Len(trace') = 2 ]_vars

\* detectNewInvoices failed, and the run went to alert and ended there
RoutingAfterDetectWitness ==
  /\ trace = <<"detectNewInvoices", "alert">>
  /\ ~IsSome(st.invoice)
  /\ ErrorIsSet(st.error)
  /\ pc = "END"
  /\ run = 1

\* C9 Routing after CheckCompleteness: with an error set or the invoice absent
\* the next stage is alert; otherwise it is scanInvoicePdf iff at least one
\* required field is missing according to checkCompleteness, and
\* resolveContact iff none is: the router's missing fields are the node's.
RoutingAfterCompleteness ==
  [][ pc = "checkCompleteness" =>
        /\ pc' = IF ErrorIsSet(st'.error) \/ ~IsSome(st'.invoice) THEN "alert"
                 ELSE IF checkCompletenessMissing(Val(st'.invoice)) # {}
                   THEN "scanInvoicePdf"
                 ELSE "resolveContact"
        /\ IsSome(st'.invoice) =>
             routeAfterCompletenessMissing(Val(st'.invoice))
               = checkCompletenessMissing(Val(st'.invoice)) ]_vars

\* checkCompleteness found the tax missing (it is null), no error is set, and
\* the router sent the invoice to resolveContact
MissingTaxNotScanned ==
  /\ Len(trace) > 0
  /\ trace[Len(trace)] = "checkCompleteness"
  /\ ~ErrorIsSet(st.error)
  /\ IsSome(st.invoice)
  /\ Val(st.invoice).tax = JsNull
  /\ checkCompletenessMissing(Val(st.invoice)) = {"tax"}
  /\ pc = "resolveContact"

\* The stages of the chain, each with the stage that has to follow it
ChainFollower ==
  [scanInvoicePdf |-> "resolveContact", resolveContact |-> "validateInvoice",
   validateInvoice |-> "classifyKostenpost",
   classifyKostenpost |-> "matchTransactions",
   matchTransactions |-> "confidenceGate"]

ChainStages == DOMAIN ChainFollower \cup {"confidenceGate"}

\* C10 Fixed chain without short-circuit: after scanInvoicePdf comes
\* resolveContact, and resolveContact, validateInvoice, classifyKostenpost,
\* matchTransactions and confidenceGate run in that order, each at most once
\* per run and each followed by the next whether or not an error is set.
FixedChain ==
  /\ \A j \in 1..Len(trace) :
       trace[j] \in DOMAIN ChainFollower =>
         (IF j < Len(trace) THEN trace[j + 1] ELSE pc) = ChainFollower[trace[j]]
  /\ \A j \in 1..Len(trace) : \A k \in (j + 1)..Len(trace) :
       trace[j] = trace[k] => trace[j] \notin ChainStages

\* scanInvoicePdf failed (error set, no extraction), and all five stages of the
\* chain ran after it
FixedChainWitness ==
  /\ Len(trace) = 8
  /\ trace[3] = "scanInvoicePdf"
  /\ trace[8] = "confidenceGate"
  /\ ~IsSome(st.extraction)
  /\ ErrorIsSet(st.error)
  /\ pc = "alert"

\* C11 Termination: every run started at detectNewInvoices comes to an end,
\* having executed each stage at most once, with autoBook or alert as its
\* last stage and never both of them.
RunTerminates ==
  (pc = "detectNewInvoices") ~>
    /\ pc \in {"END", "FAILED"}
    /\ Len(trace) >= 2
    /\ trace[Len(trace)] \in {"autoBook", "alert"}
    /\ \A j \in 1..Len(trace) : \A k \in 1..Len(trace) :
         j # k => trace[j] # trace[k]
    /\ ~(\E j \in 1..Len(trace) : \E k \in 1..Len(trace) :
           trace[j] = "autoBook" /\ trace[k] = "alert")

\* A run through all stages from detection to extraction to autoBook ended
RunTerminatesWitness ==
  /\ pc = "END"
  /\ Len(trace) = 9
  /\ trace[3] = "scanInvoicePdf"
  /\ trace[9] = "autoBook"
  /\ ~ErrorIsSet(st.error)

\* C12 Nothing-to-process exit: when detection finds no invoice in state new
\* or draft outside the processed-invoices table, the run goes to alert with
\* no invoice and no error; alert then ends the run without raising an error,
\* without a row in processed_invoices or processing_log, without a platform
\* write and without a notification.
NothingToProcessExit ==
  [][ /\ ( /\ pc = "detectNewInvoices"
           /\ \A i \in AllIds :
                (mb[i].exists /\ mb[i].inv.state \in {"new", "draft"})
                  => i \in processed
           /\ ~ErrorIsSet(st'.error) )
         => (pc' = "alert" /\ ~IsSome(st'.invoice))
      /\ (pc = "alert" /\ ~IsSome(st.invoice) /\ ~ErrorIsSet(st.error))
         => /\ pc' = "END"
            /\ ~ErrorIsSet(st'.error)
            /\ ~IsSome(st'.invoice)
            /\ UNCHANGED <<processed, calls, writes, mb>> ]_vars

\* A run that found every invoice processed has ended after detect and alert
NothingToProcessExitWitness ==
  /\ pc = "END"
  /\ trace = <<"detectNewInvoices", "alert">>
  /\ ~IsSome(st.invoice)
  /\ ~ErrorIsSet(st.error)
  /\ processed = processedAtStart
  /\ calls = {}
  /\ notify = NotifyIdle
  /\ requests = <<>>
  /\ memory = <<>>
  /\ attempts = <<>>
  /\ writes = {}

\* C13 Every non-normal outcome reaches a human: a run that has ended with an
\* error set by some stage, or with action flag_review or alert_user, has
\* dispatched a notification.
EveryFailureNotified ==
  ( /\ pc \in {"END", "FAILED"}
    /\ \/ ErrorIsSet(st.error)
       \/ st.action \in {"flag_review", "alert_user"} )
  => \E c \in calls : c.kind = "sendErrorAlert"

\* Detection failed, alert ran and the run ended: nothing was dispatched
FailureNotNotified ==
  /\ pc = "END"
  /\ trace = <<"detectNewInvoices", "alert">>
  /\ ErrorIsSet(st.error)
  /\ ~IsSome(st.invoice)
  /\ ~(\E c \in calls : c.kind = "sendErrorAlert")

\* C14 Draft-safety: every invoice on the platform either has the lifecycle
\* state it had when the run started or is in state draft; an invoice created
\* by the run is in state draft.
DraftSafety ==
  \A i \in AllIds :
    mb[i].exists =>
      \/ mbAtStart[i].exists /\ mb[i].inv.state = mbAtStart[i].inv.state
      \/ mb[i].inv.state = "draft"

\* The resolver created a replacement invoice and the original, an invoice in
\* state new, was updated or deleted by the same run
DraftSafetyWitness ==
  \E n \in AllIds \ InvoiceIds : \E i \in InvoiceIds :
    /\ mb[n].exists /\ ~mbAtStart[n].exists
    /\ mb[n].inv.state = "draft"
    /\ Write("createInvoice", i, "resolveContact") \in writes
    /\ mbAtStart[i].inv.state = "new"

\* The validator has run on an invoice with a recorded tax and got an answer
ValidatorRan ==
  /\ trace = <<"validateInvoice">>
  /\ IsSome(st.invoice)
  /\ Val(st.invoice).tax.t = "number"
  /\ IsSome(oracle.llm)
  /\ IsSome(st.validationDecision)

\* |recordedTax - (amountIncl - amountExcl)| of the invoice in the state
TaxDiscrepancy ==
  LET v == Val(st.invoice)
  IN Abs(v.tax.v - (v.total_price_incl_tax - v.total_price_excl_tax))

\* C17 Validator confidence penalty: the validation confidence is the model's
\* confidence when the discrepancy is at most 1 and max(0, model - 20) when
\* it is more than 1.
ValidatorPenalty ==
  ValidatorRan =>
    LET c == Val(oracle.llm).confidence
    IN Val(st.validationDecision).confidence =
         IF TaxDiscrepancy <= 1 THEN c
         ELSE IF c - 20 > 0 THEN c - 20 ELSE 0

\* A discrepancy of exactly 1 cent has cost 20 points of confidence
OneCentPenalised ==
  /\ ValidatorRan
  /\ TaxDiscrepancy = 1
  /\ Val(oracle.llm).confidence = 100
  /\ Val(st.validationDecision).confidence = 80

\* C18 Validator review flag: the validation decision's requiresReview is the
\* model's flag when the discrepancy is at most 100 and true when it is more.
ValidatorReviewFlag ==
  ValidatorRan =>
    Val(st.validationDecision).requiresReview =
      IF TaxDiscrepancy <= 100 THEN Val(oracle.llm).requiresReview ELSE TRUE

\* A discrepancy of 21 with a model flag of false has produced true
SmallDiscrepancyForcesReview ==
  /\ ValidatorRan
  /\ TaxDiscrepancy = 21
  /\ ~Val(oracle.llm).requiresReview
  /\ Val(st.validationDecision).requiresReview

\* The resolver has run and got as far as comparing names with the contacts
ResolverSearched ==
  /\ pc = "validateInvoice"
  /\ trace[Len(trace)] = "resolveContact"
  /\ st.error \notin {"No invoice or extraction data available",
                      "No supplier name available", "Failed to list contacts"}

LowConfidenceCreatesContact ==
  ( /\ ResolverSearched
    /\ IsSome(st.contactMatchDecision)
    /\ Val(st.contactMatchDecision).confidence < 80 )
  => (st.contact /\ st.isNewContact)

\* C16 (amended) Low-confidence contact disposition: with a contact decision
\* below 80 the stage calls createContact; it ends with the new contact in the
\* state and isNewContact true when the call succeeds, and with no contact
\* and isNewContact false when the call fails.
LowConfidenceAttemptsCreate ==
  ( /\ ResolverSearched
    /\ IsSome(st.contactMatchDecision)
    /\ Val(st.contactMatchDecision).confidence < 80 )
  => /\ \E w \in writes : w.op = "createContact"
     /\ IF oracle.createOk
          THEN st.contact /\ st.isNewContact
          ELSE ~st.contact /\ ~st.isNewContact

\* A substring match at 75 ended with a newly created contact
LowConfidenceWitness ==
  /\ ResolverSearched
  /\ oracle.search = "fuzzy"
  /\ IsSome(st.contactMatchDecision)
  /\ Val(st.contactMatchDecision).confidence = 75
  /\ st.contact
  /\ st.isNewContact
  /\ \E w \in writes : w.op = "contactCreated"

\* The resolver of this run created a replacement n for the original i
ReplacementCreated(i, n) ==
  /\ Write("createInvoice", i, "resolveContact") \in writes
  /\ mb[n].exists
  /\ ~mbAtStart[n].exists

\* C19 Replace-invoice fallback: once the resolver has created a replacement,
\* the original is deleted on the platform or recorded in processed_invoices
\* (so that detection cannot select it again) and the run's invoice is the
\* replacement.
ReplacementRetiresOriginal ==
  \A i \in InvoiceIds : \A n \in AllIds \ InvoiceIds :
    (pc # "resolveContact" /\ ReplacementCreated(i, n)) =>
      /\ ~mb[i].exists \/ i \in processed
      /\ IsSome(st.invoice)
      /\ Val(st.invoice).id = n

\* The resolver has returned: the replacement exists, the original is still
\* on the platform and not in the table, and the run goes on with the original
OriginalLeftBehind ==
  \E i \in InvoiceIds : \E n \in AllIds \ InvoiceIds :
    /\ pc = "validateInvoice"
    /\ ReplacementCreated(i, n)
    /\ mb[i].exists
    /\ i \notin processed
    /\ IsSome(st.invoice)
    /\ Val(st.invoice).id = i

\* The platform refused the resolver's update of invoice i and the run
\* created no replacement
FallbacksFailed(i) ==
  /\ Write("updateRejected", i, "resolveContact") \in writes
  /\ \A n \in AllIds \ InvoiceIds : mb[n].exists => mbAtStart[n].exists

\* C20 State-conflict with all fallbacks failing: a run in which the update
\* was refused and no replacement was created ends at alert with the original
\* invoice on the platform as it was when the run started.
OriginalUntouchedWhenFallbacksFail ==
  \A i \in InvoiceIds :
    (pc \in {"END", "FAILED"} /\ FallbacksFailed(i)) =>
      /\ mb[i] = mbAtStart[i]
      /\ trace[Len(trace)] = "alert"

\* The run ended at alert after the refused update and the failed fallbacks;
\* the contact-only step has left its contact on the original
ContactOnlyStepTookEffect ==
  \E i \in InvoiceIds :
    /\ pc = "END"
    /\ FallbacksFailed(i)
    /\ trace[Len(trace)] = "alert"
    /\ Write("createInvoice", i, "resolveContact") \in writes
    /\ mbAtStart[i].inv.state = "new"
    /\ ~mbAtStart[i].inv.contact_id
    /\ mb[i].inv.contact_id
    /\ mb[i].inv.total_price_incl_tax = mbAtStart[i].inv.total_price_incl_tax

\* C22 isNewContact is monotonic within a run: a run starts with the flag
\* false, and no step of a run in which the flag is true leaves it false.
IsNewContactMonotonic ==
  [][ /\ pc = "detectNewInvoices" => ~st.isNewContact
      /\ (st.isNewContact /\ pc \notin {"idle", "END", "FAILED"})
           => st'.isNewContact ]_vars

\* The flag set by resolveContact is still set when the run has ended,
\* seven stages later
IsNewContactMonotonicWitness ==
  /\ pc = "END"
  /\ st.isNewContact
  /\ Len(trace) = 9
  /\ trace[4] = "resolveContact"
  /\ trace[9] = "alert"

\* autoBook has run on invoice 1 with action auto_book
BookRan ==
  /\ trace[Len(trace)] = "autoBook"
  /\ st.action = "auto_book"
  /\ IsSome(st.invoice)

BookUpdateRejected == Write("updateRejected", 1, "autoBook") \in writes

\* C23 (as stated) AutoBook effects and their order: the node issues an update;
\* a processing-log entry and the record in processed_invoices exist only if
\* that update succeeded; a failed update leaves the invoice unrecorded and
\* sets an error.
AutoBookOrder ==
  BookRan =>
    /\ Write("update", 1, "autoBook") \in writes
    /\ (\E c \in calls : c.kind = "logProcessing" /\ c.by = "autoBook")
         => ~BookUpdateRejected
    /\ 1 \in processed => ~BookUpdateRejected
    /\ BookUpdateRejected => (1 \notin processed /\ ErrorIsSet(st.error))

\* C23 (amended) AutoBook effects and their order: the node issues an update;
\* the log entry of the booking and, after it, the record in
\* processed_invoices exist only if that update succeeded; a failed update
\* leaves the invoice unrecorded, and the node then writes a log entry that
\* carries the error and sets the error, or fails as a whole when that log
\* write fails too.
AutoBookOrderAmended ==
  BookRan =>
    /\ Write("update", 1, "autoBook") \in writes
    /\ Call("logProcessing", 1, "autoBook", FALSE) \in calls => ~BookUpdateRejected
    /\ 1 \in processed =>
         (~BookUpdateRejected /\ Call("logProcessing", 1, "autoBook", FALSE) \in calls)
    /\ BookUpdateRejected =>
         /\ 1 \notin processed
         /\ IF Call("logProcessing", 1, "autoBook", TRUE) \in calls
              THEN ErrorIsSet(st.error) /\ pc = "END"
              ELSE ~ErrorIsSet(st.error) /\ pc = "FAILED"

\* The update went through, the log entry was written and the invoice is
\* recorded as processed
AutoBookOrderWitness ==
  /\ BookRan
  /\ pc = "END"
  /\ ~BookUpdateRejected
  /\ Call("logProcessing", 1, "autoBook", FALSE) \in calls
  /\ 1 \in processed
  /\ mb[1].inv.total_price_incl_tax = 5000
  /\ mbAtStart[1].inv.total_price_incl_tax = 0 - 5000

\* matchTransactions has run and listTransactions answered
MatcherListed ==
  /\ trace = <<"matchTransactions">>
  /\ Val(st.invoice).invoice_date
  /\ oracle.listOk

\* No listed transaction differs from the invoice's amount by 1 % or less
NoneWithinOnePercent ==
  LET invoiceAmount == Val(st.invoice).total_price_incl_tax
  IN \A t \in oracle.transactions :
       Abs(t.amount - invoiceAmount) * 100 > Abs(invoiceAmount)

\* C28 Transaction matcher without candidates: when no listed transaction
\* lies within 1 % of the invoice's amount, the stage returns the decision
\* with confidence 0 and requiresReview true, matches no transaction and sets
\* no error, whatever the model would have answered (it is not called); a
\* matched transaction is always one of the transactions within 1 %.
MatcherWithoutCandidates ==
  MatcherListed =>
    LET invoiceAmount == Val(st.invoice).total_price_incl_tax
        mt == IF IsSome(oracle.answer) /\ IsSome(st.matchDecision)
                THEN matchedTransaction(oracle.transactions, invoiceAmount,
                                        Val(oracle.answer))
                ELSE None
    IN /\ NoneWithinOnePercent =>
            /\ st.matchDecision = Some(Decision(0, TRUE))
            /\ ~ErrorIsSet(st.error)
            /\ ~IsSome(mt)
       /\ IsSome(mt) =>
            /\ Val(mt) \in oracle.transactions
            /\ Abs(Val(mt).amount - invoiceAmount) * 100 < invoiceAmount

\* Transactions were listed, none within 1 %, and the model would have failed:
\* the stage returned the zero decision and no error
MatcherWithoutCandidatesWitness ==
  /\ MatcherListed
  /\ oracle.transactions = {[id |-> 4, amount |-> 6000]}
  /\ Val(st.invoice).total_price_incl_tax = 5000
  /\ oracle.answer = None
  /\ st.matchDecision = Some(Decision(0, TRUE))
  /\ ~ErrorIsSet(st.error)

\* scanInvoicePdf has run on an invoice that has a path or an attachment
ScanRan ==
  /\ trace = <<"scanInvoicePdf">>
  /\ "doc" \in DOMAIN oracle
  /\ oracle.doc.path # "none" \/ Val(st.invoice).attachment

\* The extraction model was called: the document's acquisition did not throw
ScanModelCalled == ScanRan /\ oracle.doc.path # "unreadable"

\* C24 Extraction degrades, never aborts: when the model call of
\* scanInvoicePdf fails or answers without a JSON object, on the vision path
\* and on the text path, the stage yields an extraction of confidence 0 and
\* sets no error.
ExtractionDegrades ==
  (ScanModelCalled /\ oracle.answer.kind \in {"fail", "nojson"}) =>
    /\ ~ErrorIsSet(st.error)
    /\ IsSome(st.extraction)
    /\ Val(st.extraction).confidence = 0

\* On the vision path the failed call degrades to the zero extraction
ExtractionDegradesOnVision ==
  /\ ScanModelCalled
  /\ oracle.answer.kind = "fail"
  /\ \E j \in 1..Len(attempts) : attempts[j].ok
  /\ st.extraction = Some(ZeroExtraction)
  /\ ~ErrorIsSet(st.error)

StrategyRank(strategy) ==
  CHOOSE r \in 1..Len(Strategies) : Strategies[r] = strategy

\* The strategy has what it needs: a path, an attachment with a URL or an
\* id, the invoice's id
StrategyApplicable(strategy) ==
  LET att == Val(st.invoice).attachment
  IN CASE strategy = "localPath" -> oracle.doc.path # "none"
       [] strategy = "attachmentUrl" -> att /\ oracle.doc.attUrl
       [] strategy = "receiptById" -> att /\ oracle.doc.attId
       [] strategy = "listReceipts" -> att
       [] strategy = "constructedUrl" -> att /\ oracle.doc.attId
       [] strategy = "cachedCopy" -> TRUE

\* C29 Document acquisition order: the strategies are attempted in the fixed
\* order, a later one only after every earlier one failed to yield a
\* document, and the failure of one does not keep the later ones from being
\* attempted.
AcquisitionOrder ==
  ScanRan =>
    /\ \A j \in 1..Len(attempts) : \A k \in (j + 1)..Len(attempts) :
         /\ StrategyRank(attempts[j].strategy) < StrategyRank(attempts[k].strategy)
         /\ ~attempts[j].ok
    /\ \A r \in 1..Len(Strategies) :
         ( /\ StrategyApplicable(Strategies[r])
           /\ \A j \in 1..Len(attempts) :
                StrategyRank(attempts[j].strategy) < r => ~attempts[j].ok )
           => \E j \in 1..Len(attempts) : attempts[j].strategy = Strategies[r]

\* The order and the stop at the first document do hold: a receipt's download
\* fails and the constructed URL then yields the document
AcquisitionOrderWitness ==
  /\ ScanRan
  /\ Len(attempts) = 3
  /\ attempts[1] = Attempt("receiptById", FALSE)
  /\ attempts[2] = Attempt("listReceipts", FALSE)
  /\ attempts[3] = Attempt("constructedUrl", TRUE)

\* C30 No document obtained: when scanInvoicePdf obtains no document (no
\* attachment and no path, an unreadable file, every download failing) it
\* sets no error, takes the text from the invoice's reference and notes and
\* still produces an extraction (the model answering with JSON).
NoDocumentFallsBack ==
  ( /\ trace = <<"scanInvoicePdf">>
    /\ "doc" \in DOMAIN oracle
    /\ \A j \in 1..Len(attempts) : ~attempts[j].ok
    /\ oracle.answer.kind = "json" )
    => /\ ~ErrorIsSet(st.error)
       /\ st.invoicePdfText = "metadata"
       /\ st.extraction = Some(oracle.answer.e)

\* Every download failing does fall back to the invoice's own text
NoDocumentFallsBackWitness ==
  /\ ScanRan
  /\ oracle.doc.path = "none"
  /\ Len(attempts) = 4
  /\ \A j \in 1..Len(attempts) : ~attempts[j].ok
  /\ oracle.answer.kind = "json"
  /\ st.invoicePdfText = "metadata"
  /\ st.extraction = Some(oracle.answer.e)
  /\ ~ErrorIsSet(st.error)

\* c is the non-negative whole number of cents nearest to |a| (a in
\* thousandths of a euro), the half cent going up
RoundedCents(c, a) == c >= 0 /\ 10 * c - 5 <= Abs(a) /\ Abs(a) < 10 * c + 5

\* The three amounts of an invoice and the extracted amounts they come from
AmountFields == {"excl", "incl", "tax"}
InvoiceAmount(inv, f) ==
  CASE f = "excl" -> JsNum(inv.total_price_excl_tax)
    [] f = "incl" -> JsNum(inv.total_price_incl_tax)
    [] f = "tax" -> inv.tax
ExtractedAmount(e, f) ==
  CASE f = "excl" -> e.amount_excl_tax
    [] f = "incl" -> e.amount_incl_tax
    [] f = "tax" -> e.tax_amount

\* The amount f of invoice i on the platform was written in this run
AmountWritten(i, f) ==
  /\ mb[i].exists
  /\ ~mbAtStart[i].exists \/ InvoiceAmount(mb[i].inv, f) # InvoiceAmount(mbAtStart[i].inv, f)

\* C25 Amount normalization: for every extracted amount a, the amount stored
\* on the state's invoice by scanInvoicePdf and every amount written to the
\* platform by resolveContact or autoBook is the non-negative integer
\* round(|a| * 100); no negative amount is written.
AmountNormalization ==
  \A f \in AmountFields :
    /\ \A i \in AllIds :
         (AmountWritten(i, f) /\ InvoiceAmount(mb[i].inv, f).t = "number")
           => InvoiceAmount(mb[i].inv, f).v >= 0
    /\ (IsSome(st.extraction) /\ ExtractedAmount(Val(st.extraction), f).t = "number") =>
         LET a == ExtractedAmount(Val(st.extraction), f).v
         IN /\ IsSome(st.invoice) =>
                 /\ InvoiceAmount(Val(st.invoice), f).t = "number"
                 /\ RoundedCents(InvoiceAmount(Val(st.invoice), f).v, a)
            /\ \A i \in AllIds :
                 AmountWritten(i, f) =>
                   /\ InvoiceAmount(mb[i].inv, f).t = "number"
                   /\ RoundedCents(InvoiceAmount(mb[i].inv, f).v, a)

\* An extracted -7.26 was stored as 726 on the state's invoice and written as
\* 726 to the platform by autoBook
AmountNormalizationWitness ==
  /\ IsSome(st.extraction) /\ IsSome(st.invoice)
  /\ Val(st.extraction).amount_incl_tax = JsNum(0 - 7260)
  /\ Val(st.invoice).total_price_incl_tax = 726
  /\ \E i \in InvoiceIds :
       /\ Write("update", i, "autoBook") \in writes
       /\ AmountWritten(i, "incl")
       /\ mb[i].inv.total_price_incl_tax = 726

\* The classification that a step of classifyKostenpost ends with has a
\* final confidence of at least 80
ConfidentClassification(s) ==
  IsSome(s.kostenpostDecision) /\ Val(s.kostenpostDecision).confidence >= 80

\* C26 Classifier memory write condition, as stated: classifyKostenpost
\* upserts the memory iff the final confidence is at least 80, and no other
\* stage writes it.
MemoryWriteIffConfident ==
  [][ /\ memory' # memory => pc = "classifyKostenpost"
      /\ pc = "classifyKostenpost" =>
           ((memory' # memory) <=> ConfidentClassification(st')) ]_vars

\* C26 as amended: the upsert happens iff the final confidence is at least
\* 80, a supplier name is known (from the extraction, the contact or the
\* invoice's contact) and the account the model names is a listed one.
MemoryWriteCondition ==
  [][ /\ memory' # memory => pc = "classifyKostenpost"
      /\ pc = "classifyKostenpost" =>
           ((memory' # memory) <=>
              /\ ConfidentClassification(st')
              /\ \/ IsSome(st.extraction) /\ Val(st.extraction).supplier_name
                 \/ st.contact
                 \/ IsSome(st.invoice) /\ Val(st.invoice).contactName
              /\ st'.kostenpostId \in LedgerAccounts) ]_vars

\* A confidence of 80 was boosted to 90 by the learned mapping and the
\* mapping's row was updated
MemoryWriteConditionWitness ==
  /\ st.currentNode = "classifyKostenpost"
  /\ st.kostenpostDecision = Some(Decision(90, FALSE))
  /\ memory = <<Row("S", "k1", 90, 2)>>

\* The rows of table t that belong to the pair of call c
RowsOfPair(t, c) ==
  { j \in 1..Len(t) : /\ t[j].supplier_name = c.supplier_name
                      /\ t[j].kostenpost_id = c.kostenpost_id }

\* C27 Memory uniqueness: after any sequence of recordKostenpostMapping
\* calls the memory holds at most one record per (supplier name, category
\* id); a call for an existing pair adds exactly 1 to its usage count and
\* overwrites its confidence with the new value, a call for a new pair
\* inserts a record with usage count 1; the other records stay as they are.
MemoryUniqueness ==
  [][ memory' # memory =>
        LET c == oracle'.call
            old == RowsOfPair(memory, c)
            new == RowsOfPair(memory', c)
            others(t) == { t[j] : j \in (1..Len(t)) \ RowsOfPair(t, c) }
        IN /\ \A j, k \in 1..Len(memory') :
                ( /\ memory'[j].supplier_name = memory'[k].supplier_name
                  /\ memory'[j].kostenpost_id = memory'[k].kostenpost_id ) => j = k
           /\ Cardinality(new) = 1
           /\ \A j \in new :
                /\ c.confidence.t = "number" => memory'[j].confidence = c.confidence.v
                /\ IF old = {}
                     THEN memory'[j].usage_count = 1
                     ELSE \A k \in old :
                            memory'[j].usage_count = memory[k].usage_count + 1
           /\ others(memory') = others(memory) ]_vars

\* Two pairs were recorded, the first of them twice, the second time with
\* another confidence
MemoryUniquenessWitness ==
  /\ Len(memory) = 2
  /\ memory[1] = Row("S", "k1", 100, 2)
  /\ memory[2] = Row("S", "k2", 80, 1)
  /\ oracle.call = [supplier_name |-> "S", kostenpost_id |-> "k1", confidence |-> JsNum(100)]

SendStarted(c) == notify.channel[c] \in {"pending", "fulfilled", "rejected"}

\* C21 Notification fan-out isolation: once sendErrorAlert has run to its
\* await, the send of every configured channel has been started, whatever
\* has become of the other sends, and every channel that is not configured
\* has been skipped; a send that is still pending can settle whether or not
\* another send was rejected; the promise of sendErrorAlert is never
\* rejected, and it is fulfilled only when no send is pending any more.
FanOutIsolation ==
  /\ notify.alert # "rejected"
  /\ notify.alert # "idle" =>
       \A c \in Channels :
         /\ configured(c, oracle.env) => SendStarted(c)
         /\ ~configured(c, oracle.env) => notify.channel[c] = "skipped"
  /\ \A c \in Channels :
       notify.channel[c] = "pending" => ENABLED SettleChannel(c)
  /\ notify.alert = "fulfilled" =>
       \A c \in Channels : notify.channel[c] # "pending"

\* Two channels configured and one not; one send was rejected, the other was
\* delivered, and sendErrorAlert has returned.
FanOutIsolationWitness ==
  /\ notify.alert = "fulfilled"
  /\ \E c, d, e \in Channels :
       /\ notify.channel[c] = "rejected"
       /\ notify.channel[d] = "fulfilled"
       /\ notify.channel[e] = "skipped"

ResolverModelFailed ==
  \E c \in calls : c.kind = "llm.invoke" /\ c.by = "resolveContact" /\ c.error

\* C31 Resolver model failure: a step of resolveContact in which the model
\* call for contact matching fails or answers without JSON leaves the run's
\* error as it was and returns a contact decision whose confidence is below
\* 80 and whose requiresReview is true; and when the Gate has computed the
\* action of a run in which that call failed, the action is alert_user.
ResolverModelFailure ==
  [][ /\ (pc = "resolveContact" /\ ResolverModelFailed') =>
           /\ st'.error = st.error
           /\ IsSome(st'.contactMatchDecision)
           /\ Val(st'.contactMatchDecision).confidence < 80
           /\ Val(st'.contactMatchDecision).requiresReview
      /\ (pc = "confidenceGate" /\ ResolverModelFailed) =>
           st'.action = "alert_user"
    ]_vars

\* The model call failed, createContact failed as well (so that the flag
\* isNewContact is not what forces the review), and the Gate has run.
ResolverModelFailureWitness ==
  /\ ResolverModelFailed
  /\ ~st.isNewContact
  /\ ~ErrorIsSet(st.error)
  /\ st.currentNode = "confidenceGate"
  /\ st.action = "alert_user"

ResolverCalledModel ==
  \E c \in calls : c.kind = "llm.invoke" /\ c.by = "resolveContact"

\* C32 No supplier hint: a step of resolveContact that starts with an invoice
\* or an extraction but without any supplier name (none extracted, none on
\* the invoice's contact, none derivable from the attachment filename or the
\* reference) invokes the language model and returns a contact decision,
\* and does not set an error.
NoSupplierHintStillDecides ==
  [][ (/\ pc = "resolveContact"
       /\ IsSome(st.invoice) \/ IsSome(st.extraction)
       /\ ~supplierNameAvailable(st)) =>
        /\ ResolverCalledModel'
        /\ IsSome(st'.contactMatchDecision)
        /\ st'.error = st.error
    ]_vars

\* resolveContact has returned for an invoice without any supplier name
NoSupplierHintWitness ==
  /\ st.currentNode = "resolveContact"
  /\ IsSome(st.invoice)
  /\ ~supplierNameAvailable(st)

InvoiceRequestOps ==
  {"updateContactOnly", "updateRemaining", "updateAll",
   "createPurchaseInvoice", "deletePurchaseInvoice"}
UpdateOps == {"updateContactOnly", "updateRemaining", "updateAll"}

IsInvoiceRequest(r) == r.op \in InvoiceRequestOps

\* C33 Write-back protocol order: in every step of resolveContact, (a) when
\* the invoice is in state new, the first request that writes the invoice is
\* the contact-only update, so the remaining fields go out after it; (b) a
\* replacement invoice is requested only after an update was refused; (c) the
\* original is deleted only after the replacement was created; (d) the
\* invoice is written at all only when a contact exists and the extraction's
\* confidence is at least 70.
WriteBackOrder ==
  [][ pc = "resolveContact" =>
        LET q == requests'
            inv == SelectSeq(q, IsInvoiceRequest)
        IN /\ (inv # <<>> /\ Val(st.invoice).state = "new") =>
                inv[1].op = "updateContactOnly"
           /\ \A j \in 1..Len(q) :
                q[j].op = "createPurchaseInvoice" =>
                  \E k \in 1..(j - 1) : q[k].op \in UpdateOps /\ ~q[k].ok
           /\ \A j \in 1..Len(q) :
                q[j].op = "deletePurchaseInvoice" =>
                  \E k \in 1..(j - 1) :
                    q[k].op = "createPurchaseInvoice" /\ q[k].ok
           /\ inv # <<>> =>
                /\ st'.contact
                /\ IsSome(st.invoice)
                /\ IsSome(st.extraction)
                /\ Val(st.extraction).confidence >= 70
    ]_vars

\* Both steps of the update of a "new" invoice went out, the second was
\* refused, as was the full update; the replacement was created and the
\* original deleted.
WriteBackOrderWitness ==
  /\ Len(requests) >= 5
  /\ \E j \in 1..(Len(requests) - 4) :
       /\ requests[j] = Req("updateContactOnly", TRUE)
       /\ requests[j + 1] = Req("updateRemaining", FALSE)
       /\ requests[j + 2] = Req("updateAll", FALSE)
       /\ requests[j + 3] = Req("createPurchaseInvoice", TRUE)
       /\ requests[j + 4] = Req("deletePurchaseInvoice", TRUE)

\* C34 Alert status: every record Alert writes to processed_invoices carries
\* a status that reflects error or review, never completed.
AlertNeverRecordsCompleted ==
  \A c \in calls :
    (c.kind = "markInvoiceProcessed" /\ c.by = "alert") => c.status # "completed"

\* The Gate computed auto_book, an earlier stage's error sent the run to
\* Alert, and Alert recorded the invoice.
AlertAfterAutoBookDecision ==
  /\ st.action = "auto_book"
  /\ ErrorIsSet(st.error)
  /\ \E c \in calls : c.kind = "markInvoiceProcessed" /\ c.by = "alert"

\* The resolver's update of invoice i, in state new, was refused and the
\* run went on with that invoice
ContinuedAfterRejectedUpdate(i) ==
  /\ Write("updateRejected", i, "resolveContact") \in writes
  /\ mbAtStart[i].inv.state = "new"
  /\ IsSome(st.invoice)
  /\ Val(st.invoice).id = i

\* C35 Retry after a rejected update: when a run in which the platform
\* refused the resolver's update of an invoice in state new, and which went
\* on with that invoice, is over, the invoice is not in processed_invoices,
\* so that Detect can select it in a later run.
RejectedUpdateStaysEligible ==
  \A i \in InvoiceIds :
    (pc = "END" /\ ContinuedAfterRejectedUpdate(i)) => ~isInvoiceProcessed(i)

\* Such a run is over, and the invoice is still on the platform in state new
RejectedUpdateRunOver ==
  \E i \in InvoiceIds :
    /\ pc = "END"
    /\ ContinuedAfterRejectedUpdate(i)
    /\ mb[i].exists
    /\ mb[i].inv.state = "new"

DecisionRecords(s) ==
  {s.contactMatchDecision, s.validationDecision, s.kostenpostDecision,
   s.matchDecision}

\* C36 AutoBook precondition: whenever AutoBook is entered, no error is set,
\* action is auto_book, isNewContact is false, the invoice amount does not
\* exceed the review threshold, all four Decision Records are present with
\* requiresReview false, a matched transaction is present, and the aggregate
\* confidence is at least the auto threshold.
AutoBookPrecondition ==
  pc = "autoBook" =>
    /\ ~ErrorIsSet(st.error)
    /\ st.action = "auto_book"
    /\ ~st.isNewContact
    /\ IsSome(st.invoice)
    /\ Val(st.invoice).total_price_incl_tax <= AMOUNT_REVIEW_THRESHOLD
    /\ \A d \in DecisionRecords(st) : IsSome(d) /\ ~Val(d).requiresReview
    /\ st.matchedTransaction
    /\ IsSome(st.overallConfidence)
    /\ Val(st.overallConfidence) >= ConfScale * CONFIDENCE_AUTO_THRESHOLD

\* AutoBook is entered in a run whose aggregate lies exactly on the threshold
\* or above it
AutoBookPreconditionWitness ==
  /\ pc = "autoBook"
  /\ trace[Len(trace)] = "confidenceGate"
  /\ st.matchedTransaction

StagesBeforeGate ==
  {"detectNewInvoices", "checkCompleteness", "scanInvoicePdf", "resolveContact",
   "validateInvoice", "classifyKostenpost", "matchTransactions"}

\* C37 Sticky error: in every step of a run that is taken with the run's
\* error set, the error is still set afterwards (a stage may replace it, none
\* clears it) and the step does not enter AutoBook; and a run in which a
\* stage from Detect to MatchTransaction left the error set, once over, has
\* ended at Alert without AutoBook.
StickyError ==
  [][ /\ (ErrorIsSet(st.error) /\ pc \notin {"idle", "END", "FAILED"}) =>
           /\ ErrorIsSet(st'.error)
           /\ pc' # "autoBook"
      /\ (ErrorIsSet(st.error) /\ pc \in StagesBeforeGate \cup {"confidenceGate"}) =>
           pc' # "END"
      /\ (ErrorIsSet(st.error) /\ pc = "alert") =>
           /\ pc' \in {"END", "FAILED"}
           /\ \A j \in 1..Len(trace') : trace'[j] # "autoBook"
    ]_vars

\* A stage before the Gate set the error, the Gate computed auto_book all the
\* same, and the run ended at Alert.
StickyErrorWitness ==
  /\ pc = "END"
  /\ Len(trace) >= 9
  /\ ErrorIsSet(st.error)
  /\ st.action = "auto_book"
  /\ trace[Len(trace)] = "alert"

InFlight(k) == tasks[k].phase = "running"

\* C38 No concurrent processing of one invoice: at no instant have two runs
\* in flight both selected the same invoice.
NoSharedInvoice ==
  \A j \in 1..MaxTasks, k \in 1..MaxTasks :
    (j # k /\ InFlight(j) /\ InFlight(k) /\ selected[j] # 0) =>
      selected[j] # selected[k]

\* The immediate run and a run started by the periodic task are in flight
\* and have selected the same invoice, which neither has recorded yet
SharedInvoice ==
  \E j \in 1..MaxTasks, k \in 1..MaxTasks :
    /\ tasks[j] = [origin |-> "immediate", phase |-> "running"]
    /\ tasks[k] = [origin |-> "tick", phase |-> "running"]
    /\ selected[j] # 0
    /\ selected[j] = selected[k]
    /\ ~isInvoiceProcessed(selected[j])

AutoBookUpdateFailed(i) == Write("updateRejected", i, "autoBook") \in writes

\* C39 Retry after a failed AutoBook: when a run in which AutoBook's update
\* of an invoice failed is over, the invoice is not in processed_invoices,
\* and if it is still on the platform in state new or draft it is among the
\* invoices Detect selects from; and AutoBook has recorded an invoice with
\* status completed only in a run in which its update of that invoice
\* succeeded.
RetryAfterFailedAutoBook ==
  \A i \in AllIds :
    /\ (pc \in {"END", "FAILED"} /\ AutoBookUpdateFailed(i)) =>
         /\ ~isInvoiceProcessed(i)
         /\ (mb[i].exists /\ mb[i].inv.state \in unprocessedStates) =>
              i \in unprocessedInvoices
    /\ Marked(i, "autoBook", "completed") \in calls =>
         /\ Write("update", i, "autoBook") \in writes
         /\ ~AutoBookUpdateFailed(i)

\* AutoBook's update failed, the run is over and the invoice is still a draft
RetryAfterFailedAutoBookWitness ==
  \E i \in AllIds :
    /\ pc = "END"
    /\ AutoBookUpdateFailed(i)
    /\ mb[i].exists
    /\ mb[i].inv.state = "draft"
    /\ i \in unprocessedInvoices

====
